---- MODULE Spec2Model ----
(***************************************************************************)
(* A model of package out (src/out.go): leveled output to a screen and a  *)
(* logfile target, prefix and metadata composition with newline tracking, *)
(* the stack trace policy and the termination protocol.                   *)
(*                                                                         *)
(* Strings are sequences of one-character strings.  Bit masks are the     *)
(* integers of the source; HasBit tests one bit of a mask.                 *)
(***************************************************************************)
EXTENDS Integers, Sequences, FiniteSets, TLC

(***************************************************************************)
(* Program constants                                                       *)
(***************************************************************************)
Ldate == 1
Ltime == 2
Lmicroseconds == 4
Llongfile == 8
Lshortfile == 16
Llongfunc == 32
Lshortfunc == 64
Lpid == 128
Llevel == 256
LscreenFlags == Ltime + Lmicroseconds
LlogfileFlags == Lpid + Llevel + Ldate + Ltime + Lmicroseconds + Lshortfile + Lshortfunc

LevelTrace == 0
LevelDebug == 1
LevelVerbose == 2
LevelInfo == 3
LevelNote == 4
LevelIssue == 5
LevelError == 6
LevelFatal == 7
LevelDiscard == 8
LevelAll == 9
defaultScreenThreshold == LevelInfo
defaultLogThreshold == LevelDiscard

ForScreen == 1
ForLogfile == 2
StackTraceNonZeroErrorExit == 4
StackTraceErrorExit == 8
StackTraceAllIssues == 16
ForBoth == ForScreen + ForLogfile
StackTraceExitToLogfile == StackTraceNonZeroErrorExit + ForLogfile

AlwaysInsert == 1
SmartInsert == 2
BlankInsert == 4
SkipFirstLine == 8

shortFileNameLength == 16
longFileNameLength == 55
shortFuncNameLength == 14
longFuncNameLength == 30
defaultErrorExitVal == -1
defaultErrCode == 100

\* The levels that have a channel (outputters), and the two targets.
Levels == LevelTrace .. LevelFatal
Targets == {ForScreen, ForLogfile}

(***************************************************************************)
(* Bit masks and strings                                                   *)
(***************************************************************************)
\* x & b != 0 for a single bit b.
HasBit(x, b) == (x \div b) % 2 = 1
\* x | b for a single bit b.
OrBit(x, b) == IF HasBit(x, b) THEN x ELSE x + b

NL == "\n"

\* F(e), with e evaluated once
Bind(e, F(_)) == CHOOSE v \in {F(x) : x \in {e}} : TRUE

RECURSIVE Spaces(_)
Spaces(n) == IF n <= 0 THEN <<>> ELSE <<" ">> \o Spaces(n - 1)

Digits == <<"0", "1", "2", "3", "4", "5", "6", "7", "8", "9">>

\* strings.Split(s, sep) for a one-character separator: never empty, Split("") = <<"">>.
RECURSIVE Split(_, _)
Split(s, sep) ==
    IF \A i \in 1 .. Len(s) : s[i] # sep
    THEN << s >>
    ELSE LET k == CHOOSE i \in 1 .. Len(s) :
                     s[i] = sep /\ \A j \in 1 .. (i - 1) : s[j] # sep
         IN  << SubSeq(s, 1, k - 1) >> \o Split(SubSeq(s, k + 1, Len(s)), sep)

\* Variant of Join: a separator follows every part, the last too.
RECURSIVE Join_Trailing(_, _)
Join_Trailing(parts, sep) ==
    IF Len(parts) = 0 THEN <<>>
    ELSE parts[1] \o << sep >> \o Join_Trailing(Tail(parts), sep)

\* strings.Join(parts, sep)
RECURSIVE Join(_, _)
Join(parts, sep) ==
    IF Len(parts) = 0 THEN <<>>
    ELSE IF Len(parts) = 1 THEN parts[1]
    ELSE parts[1] \o << sep >> \o Join(Tail(parts), sep)

\* fmt.Sprintf("%d", n)
RECURSIVE Decimal(_)
Decimal(n) ==
    IF n < 0 THEN <<"-">> \o Decimal(0 - n)
    ELSE IF n < 10 THEN << Digits[n + 1] >>
    ELSE Decimal(n \div 10) \o << Digits[(n % 10) + 1] >>

\* itoa: fixed-width decimal, zero padded to wid digits (no padding when wid < 0).
RECURSIVE itoaLoop(_, _)
itoaLoop(u, wid) ==
    IF u > 0 \/ wid > 0
    THEN itoaLoop(u \div 10, wid - 1) \o << Digits[(u % 10) + 1] >>
    ELSE <<>>
itoa(i, wid) == IF i = 0 /\ wid <= 1 THEN <<"0">> ELSE itoaLoop(i, wid)

\* fmt.Sprintf("%-<n>s", s): s padded with spaces on the right to n characters.
PadRight(s, n) == s \o Spaces(n - Len(s))

(***************************************************************************)
(* InsertPrefix: the prefix composer                                       *)
(***************************************************************************)
\* Variant of SplicedPrefix: the code is spliced whatever its value.
SplicedPrefix_AnyCode(prefix, errCode) ==
    LET parts == Split(prefix, ":")
    IN  IF Len(parts) = 2
        THEN parts[1] \o <<" ", "#">> \o Decimal(errCode) \o <<":">> \o parts[2]
        ELSE prefix

\* InsertPrefix 1245-1253: the prefix with the error code spliced in
SplicedPrefix(prefix, errCode) ==
    IF errCode > 0 /\ errCode # defaultErrCode
    THEN LET parts == Split(prefix, ":")
         IN  IF Len(parts) = 2
             THEN parts[1] \o <<" ", "#">> \o Decimal(errCode) \o <<":">> \o parts[2]
             ELSE prefix
    ELSE prefix

\* Variant of clearedCtrl: the mode bits are kept.
clearedCtrl_Kept(ctrl) == ctrl

\* InsertPrefix 1242-1244: AlwaysInsert turns every other mode bit off
clearedCtrl(ctrl) == IF HasBit(ctrl, AlwaysInsert) THEN 0 ELSE ctrl

\* Variant of newLine: the final empty line is treated like the others.
newLine_LastPrefixed(idx, numLines, line, ctrl, prefix) ==
    IF idx = 1 /\ HasBit(ctrl, SkipFirstLine) THEN line
    ELSE IF HasBit(ctrl, BlankInsert) THEN Spaces(Len(prefix)) \o line
    ELSE prefix \o line

\* InsertPrefix 1260-1272: one line of the result; idx counts from 1
newLine(idx, numLines, line, ctrl, prefix) ==
    IF (idx = numLines /\ line = <<>>) \/ (idx = 1 /\ HasBit(ctrl, SkipFirstLine))
    THEN line
    ELSE IF HasBit(ctrl, BlankInsert) THEN Spaces(Len(prefix)) \o line
    ELSE prefix \o line

\* InsertPrefix 1242-1275, for a prefix that is not empty
prefixLines(s, prefix, ctrl, errCode) ==
    LET c == clearedCtrl(ctrl)
        pfx == SplicedPrefix(prefix, errCode)
        lines == Split(s, NL)
        numLines == Len(lines)
        newLines == [idx \in 1 .. numLines |-> newLine(idx, numLines, lines[idx], c, pfx)]
    IN  Join(newLines, NL)

\* Variant of InsertPrefix: an empty prefix gives an empty result.
InsertPrefix_EmptyDrops(s, prefix, ctrl, errCode) ==
    IF prefix = <<>> THEN <<>> ELSE prefixLines(s, prefix, ctrl, errCode)

InsertPrefix(s, prefix, ctrl, errCode) ==
    IF prefix = <<>> THEN s ELSE prefixLines(s, prefix, ctrl, errCode)

(***************************************************************************)
(* The environment of one run: the process id, the clock and the call     *)
(* site that runtime.Caller resolves, and the text of a captured stack.   *)
(***************************************************************************)
Runtime ==
    [pid |-> 7, year |-> 2009, month |-> 1, day |-> 23,
     hour |-> 1, min |-> 23, sec |-> 23, micro |-> 123123,
     file |-> <<"/", "a", "/", "d", ".", "g", "o">>, line |-> 23,
     funcName |-> <<"a", ".", "g", "e", "t">>,
     trace |-> <<"g", "o", "r", NL, "m", "a", "i", "n">>]

LevelNames ==
    << <<"T","R","A","C","E">>, <<"D","E","B","U","G">>,
       <<"V","E","R","B","O","S","E">>, <<"I","N","F","O">>,
       <<"N","O","T","E">>, <<"I","S","S","U","E">>, <<"E","R","R","O","R">>,
       <<"F","A","T","A","L">>, <<"D","I","S","C","A","R","D">> >>

\* Variant of levelCheck: the level is taken as given.
levelCheck_Identity(level) == level

\* levelCheck insures valid log level values
levelCheck(level) ==
    IF level <= LevelTrace THEN LevelTrace
    ELSE IF level >= LevelDiscard THEN LevelDiscard
    ELSE level

\* Level.String()
LevelString(l) == LevelNames[levelCheck(l) + 1]

\* The part of file after its last '/' (found at an index above 0).
ShortFile(file) ==
    LET slashes == {i \in 2 .. Len(file) : file[i] = "/"}
    IN  IF slashes = {} THEN file
        ELSE LET k == CHOOSE i \in slashes : \A j \in slashes : j <= i
             IN  SubSeq(file, k + 1, Len(file))

\* The last dot-separated part of a function name, "???" when there is no dot.
JustFunc(funcName) ==
    LET parts == Split(funcName, ".")
    IN  IF Len(parts) > 1 THEN parts[Len(parts)] ELSE <<"?", "?", "?">>

\* getFlagString: the metadata leader for a flag set.
getFlagString(flags, level, funcName, file, line, t) ==
    LET pidPart == IF HasBit(flags, Lpid)
                   THEN <<"[">> \o itoa(t.pid, 1) \o <<"]", " ">> ELSE <<>>
        lvlPart == IF HasBit(flags, Llevel)
                   THEN PadRight(LevelString(level), 8) ELSE <<>>
        datePart == IF HasBit(flags, Ldate)
                    THEN itoa(t.year, 4) \o <<"/">> \o itoa(t.month, 2) \o <<"/">>
                         \o itoa(t.day, 2) \o <<" ">>
                    ELSE <<>>
        timePart == IF HasBit(flags, Ltime) \/ HasBit(flags, Lmicroseconds)
                    THEN itoa(t.hour, 2) \o <<":">> \o itoa(t.min, 2) \o <<":">>
                         \o itoa(t.sec, 2)
                         \o (IF HasBit(flags, Lmicroseconds)
                             THEN <<".">> \o itoa(t.micro, 6) ELSE <<>>)
                         \o <<" ">>
                    ELSE <<>>
        shortF == HasBit(flags, Lshortfile)
        fileLen == IF shortF THEN shortFileNameLength ELSE longFileNameLength
        fname == IF shortF THEN ShortFile(file) ELSE file
        base == fname \o <<":">> \o itoa(line, -1)
        formatLen == IF HasBit(flags, Lshortfunc) THEN fileLen + shortFuncNameLength
                     ELSE IF HasBit(flags, Llongfunc) THEN fileLen + longFuncNameLength
                     ELSE fileLen
        tmp == IF HasBit(flags, Lshortfunc) THEN base \o <<":">> \o JustFunc(funcName)
               ELSE IF HasBit(flags, Llongfunc) THEN base \o <<":">> \o funcName
               ELSE base \o <<" ">>
        filePart == IF HasBit(flags, Lshortfile) \/ HasBit(flags, Llongfile)
                    THEN PadRight(tmp, formatLen) \o <<":", " ">> ELSE <<>>
    IN  pidPart \o lvlPart \o datePart \o timePart \o filePart

(***************************************************************************)
(* State                                                                   *)
(***************************************************************************)
VARIABLES
    screenThreshold, logThreshold,  \* the two global thresholds
    screenNewline, logfileNewline,  \* the two continuation flags
    stackTraceConfig,               \* mask: target bits and trigger bits
    errorExitVal,                   \* exit value of Fatal and of failures
    deferFunc,                      \* the registered hook, 0 when nil
    prefix, screenHndl, screenFlags, logfileHndl, logFlags, formatter,
                                    \* the channels' fields, by level
    env,                            \* the environment variables consulted
    written,                        \* bytes the last operation wrote, by sink
    tgtNl,                          \* history, by target: the last byte
                                    \* written for it so far is a newline
    tgtSink,                        \* history, by target: the sink that
                                    \* received all its bytes so far, "none"
                                    \* before any, "mixed" when several did
    resetCalled,                    \* ResetNewline has been called
    diag,                           \* diagnostics of the last operation on
                                    \* the fallback stream os.Stderr
    hookCalls,                      \* arguments of the hook calls of the
                                    \* last operation, in order
    hookRun,                        \* the hooks those calls ran, in order
    exited, exitCode,               \* os.Exit was called, and its argument
    panicked,                       \* a runtime fault ended the process
    blocked,                        \* the caller waits for a lock that is
                                    \* never released
    last,                           \* the last operation and its inputs
    pc, loc,                        \* concurrent callers: the place each one
                                    \* is at in its call, and its local values
    calls,                          \* the number of calls concurrent callers
                                    \* have begun
    sinkLog                         \* history: the Write calls the sinks got
                                    \* from concurrent callers, in order

config == << screenThreshold, logThreshold, stackTraceConfig, errorExitVal,
             deferFunc, prefix, screenHndl, screenFlags, logfileHndl, logFlags,
             formatter, env >>
flags2 == << screenNewline, logfileNewline >>
obs == << written, tgtNl, tgtSink, resetCalled, diag, hookCalls, hookRun, exited,
          exitCode, panicked, blocked, last >>
conc == << pc, loc, calls, sinkLog >>
vars == << config, flags2, obs, conc >>

ScreenSinks == {"stdout", "stderr"}
LogSinks == {"discard", "logfile"}
Sinks == ScreenSinks \cup LogSinks

\* o.screenHndl or o.logfileHndl of the channel of a level
Hndl(level, outputTgt) ==
    IF outputTgt = ForScreen THEN screenHndl[level] ELSE logfileHndl[level]

\* The continuation flag of a target
Newline(outputTgt) == IF outputTgt = ForScreen THEN screenNewline ELSE logfileNewline

\* Variant of safeThreshold: the gate of a target reads the other target's
\* threshold.
safeThreshold_Swapped(outputTgt) ==
    IF outputTgt = ForScreen THEN logThreshold ELSE screenThreshold

\* safeScreenThreshold or safeLogThreshold: the threshold an emission reads
safeThreshold(outputTgt) ==
    IF outputTgt = ForScreen THEN screenThreshold ELSE logThreshold

(***************************************************************************)
(* Stack trace policy                                                      *)
(***************************************************************************)
UpperCase == <<"A","B","C","D","E","F","G","H","I","J","K","L","M",
               "N","O","P","Q","R","S","T","U","V","W","X","Y","Z">>
LowerCase == <<"a","b","c","d","e","f","g","h","i","j","k","l","m",
               "n","o","p","q","r","s","t","u","v","w","x","y","z">>
\* strings.ToLower
ToLower(s) ==
    [i \in 1 .. Len(s) |->
        IF \E k \in 1 .. 26 : UpperCase[k] = s[i]
        THEN LowerCase[CHOOSE k \in 1 .. 26 : UpperCase[k] = s[i]]
        ELSE s[i]]

TokBoth == <<"b","o","t","h">>
TokScreen == <<"s","c","r","e","e","n">>
TokLogfile == <<"l","o","g","f","i","l","e">>
TokNonZero == <<"n","o","n","z","e","r","o","e","r","r","o","r","e","x","i","t">>
TokErrorExit == <<"e","r","r","o","r","e","x","i","t">>
TokAllIssues == <<"a","l","l","i","s","s","u","e","s">>
TokAll == <<"a","l","l">>
TokOff == <<"o","f","f">>

\* One step of the loop over the settings of PKG_OUT_STACK_TRACE_CONFIG
StackSetting(newCfg, setting) ==
    LET t == ToLower(setting)
    IN  IF t = TokBoth THEN OrBit(OrBit(newCfg, ForScreen), ForLogfile)
        ELSE IF t = TokScreen THEN OrBit(newCfg, ForScreen)
        ELSE IF t = TokLogfile THEN OrBit(newCfg, ForLogfile)
        ELSE IF t = TokNonZero THEN OrBit(newCfg, StackTraceNonZeroErrorExit)
        ELSE IF t = TokErrorExit THEN OrBit(newCfg, StackTraceErrorExit)
        ELSE IF t = TokAllIssues \/ t = TokAll THEN OrBit(newCfg, StackTraceAllIssues)
        ELSE IF t = TokOff THEN 0
        ELSE newCfg

\* The configuration stackTraceWanted decides on: the environment's when it
\* is set and has two settings, the programmatic one otherwise.
EffectiveStackCfg(cfg, val) ==
    IF val # <<>>
    THEN LET settings == Split(val, ",")
         IN  IF Len(settings) = 2
             THEN StackSetting(StackSetting(0, settings[1]), settings[2])
             ELSE cfg
    ELSE cfg

\* Variant of StackDecision: the AllIssues trigger is looked at first.
StackDecision_AllIssuesFirst(stackCfg, level, terminal, exitVal, outputTgt) ==
    IF ~HasBit(stackCfg, outputTgt) THEN FALSE
    ELSE IF HasBit(stackCfg, StackTraceAllIssues)
         THEN ~(level < LevelIssue)
    ELSE IF HasBit(stackCfg, StackTraceNonZeroErrorExit)
         THEN ~(~terminal \/ exitVal = 0)
    ELSE IF HasBit(stackCfg, StackTraceErrorExit)
         THEN ~(~terminal \/ level < LevelIssue)
    ELSE FALSE

\* The decision of stackTraceWanted on a configuration
StackDecision(stackCfg, level, terminal, exitVal, outputTgt) ==
    IF ~HasBit(stackCfg, outputTgt) THEN FALSE
    ELSE IF HasBit(stackCfg, StackTraceNonZeroErrorExit)
         THEN ~(~terminal \/ exitVal = 0)
    ELSE IF HasBit(stackCfg, StackTraceErrorExit)
         THEN ~(~terminal \/ level < LevelIssue)
    ELSE IF HasBit(stackCfg, StackTraceAllIssues)
         THEN ~(level < LevelIssue)
    ELSE FALSE

\* o.stackTraceWanted(terminal, exitVal, outputTgt) for the channel of level
stackTraceWanted(level, terminal, exitVal, outputTgt) ==
    StackDecision(EffectiveStackCfg(stackTraceConfig, env.stackTraceConfig),
                  level, terminal, exitVal, outputTgt)

\* getStackTrace(nil): a fresh trace of the caller
getStackTrace ==
    <<NL, "S","t","a","c","k"," ","T","r","a","c","e",":"," ">> \o Runtime.trace \o <<NL>>

(***************************************************************************)
(* Metadata flags from the environment, and the debug scope                *)
(***************************************************************************)
FlagBits ==
    {Ldate, Ltime, Lmicroseconds, Llongfile, Lshortfile, Llongfunc, Lshortfunc,
     Lpid, Llevel}

RECURSIVE SumSet(_)
SumSet(S) == IF S = {} THEN 0
             ELSE LET x == CHOOSE y \in S : TRUE IN x + SumSet(S \ {x})

\* x | m for masks of flag bits
OrMask(x, m) == SumSet({b \in FlagBits : HasBit(x, b) \/ HasBit(m, b)})

FlagTok_debug == <<"d", "e", "b", "u", "g">>
FlagTok_all == <<"a", "l", "l">>
FlagTok_longall == <<"l", "o", "n", "g", "a", "l", "l">>
FlagTok_pid == <<"p", "i", "d">>
FlagTok_level == <<"l", "e", "v", "e", "l">>
FlagTok_date == <<"d", "a", "t", "e">>
FlagTok_time == <<"t", "i", "m", "e">>
FlagTok_micro == <<"m", "i", "c", "r", "o">>
FlagTok_microseconds == <<"m", "i", "c", "r", "o", "s", "e", "c", "o", "n", "d", "s">>
FlagTok_file == <<"f", "i", "l", "e">>
FlagTok_shortfile == <<"s", "h", "o", "r", "t", "f", "i", "l", "e">>
FlagTok_longfile == <<"l", "o", "n", "g", "f", "i", "l", "e">>
FlagTok_func == <<"f", "u", "n", "c">>
FlagTok_shortfunc == <<"s", "h", "o", "r", "t", "f", "u", "n", "c">>
FlagTok_longfunc == <<"l", "o", "n", "g", "f", "u", "n", "c">>
FlagTok_off == <<"o", "f", "f">>

\* One step of the loop of determineFlags over the comma separated settings
FlagSetting(flags, currFlag) ==
    IF currFlag = FlagTok_debug
    THEN OrMask(flags, Llevel + Ltime + Lmicroseconds + Lshortfile + Lshortfunc)
    ELSE IF currFlag = FlagTok_all
    THEN OrMask(flags, Lpid + Llevel + Ldate + Ltime + Lmicroseconds + Lshortfile
                       + Lshortfunc)
    ELSE IF currFlag = FlagTok_longall
    THEN OrMask(flags, Lpid + Llevel + Ldate + Ltime + Lmicroseconds + Llongfile
                       + Llongfunc)
    ELSE IF currFlag = FlagTok_pid THEN OrMask(flags, Lpid)
    ELSE IF currFlag = FlagTok_level THEN OrMask(flags, Llevel)
    ELSE IF currFlag = FlagTok_date THEN OrMask(flags, Ldate)
    ELSE IF currFlag = FlagTok_time THEN OrMask(flags, Ltime)
    ELSE IF currFlag = FlagTok_micro \/ currFlag = FlagTok_microseconds
    THEN OrMask(flags, Lmicroseconds)
    ELSE IF currFlag = FlagTok_file \/ currFlag = FlagTok_shortfile
    THEN OrMask(flags, Lshortfile)
    ELSE IF currFlag = FlagTok_longfile THEN OrMask(flags, Llongfile)
    ELSE IF currFlag = FlagTok_func \/ currFlag = FlagTok_shortfunc
    THEN OrMask(flags, Lshortfunc)
    ELSE IF currFlag = FlagTok_longfunc THEN OrMask(flags, Llongfunc)
    ELSE IF currFlag = FlagTok_off THEN 0
    ELSE flags

RECURSIVE determineFlagsLoop(_, _)
determineFlagsLoop(flagStrs, flags) ==
    IF flagStrs = <<>> THEN flags
    ELSE determineFlagsLoop(Tail(flagStrs), FlagSetting(flags, Head(flagStrs)))

\* determineFlags: the flags a comma separated string of settings names
determineFlags(flagStr) == determineFlagsLoop(Split(flagStr, ","), 0)

\* strings.Contains(s, substr)
Contains(s, substr) ==
    \E i \in 0 .. (Len(s) - Len(substr)) : SubSeq(s, i + 1, i + Len(substr)) = substr

\* Variant of debugScopeSuppress: the level of the channel is not looked at.
debugScopeSuppress_AnyLevel(level, debugScope) ==
    /\ debugScope # <<>>
    /\ LET scopeParts == Split(debugScope, ",")
       IN  ~\E i \in 1 .. Len(scopeParts) : Contains(Runtime.funcName, scopeParts[i])

\* insertFlagMetadata 1750-1759: the output of the Debug and Trace channels
\* is suppressed when PKG_OUT_DEBUG_SCOPE is set and none of its parts is
\* found in the name of the calling function.
debugScopeSuppress(level, debugScope) ==
    /\ debugScope # <<>>
    /\ level \in {LevelDebug, LevelTrace}
    /\ LET scopeParts == Split(debugScope, ",")
       IN  ~\E i \in 1 .. Len(scopeParts) : Contains(Runtime.funcName, scopeParts[i])

(***************************************************************************)
(* Prefixing                                                               *)
(***************************************************************************)
\* o.screenFlags or o.logFlags of the channel of a level
ChanFlags(level, outputTgt) ==
    IF outputTgt = ForScreen THEN screenFlags[level] ELSE logFlags[level]

\* insertFlagMetadata 1709-1722: the flags used for a target, the ones of
\* PKG_OUT_SCREEN_FLAGS or PKG_OUT_LOGFILE_FLAGS when that is set, else
\* the channel's (sF, lF).
EffectiveFlags(chanFlags, outputTgt) ==
    LET str == IF outputTgt = ForScreen THEN env.screenFlags ELSE env.logfileFlags
    IN  IF str # <<>> THEN determineFlags(str) ELSE chanFlags

\* o.insertFlagMetadata(s, outputTgt, ctrl, nil, false) for channel flags
\* read as chanFlags: the decorated string and whether the output is
\* suppressed.
insertFlagMetadataWith(level, s, outputTgt, ctrl, chanFlags) ==
    LET leader == getFlagString(EffectiveFlags(chanFlags, outputTgt), level,
                                Runtime.funcName, Runtime.file, Runtime.line, Runtime)
    IN  [s |-> IF leader = <<>> THEN s ELSE InsertPrefix(s, leader, ctrl, 0),
         suppressOutput |-> debugScopeSuppress(level, env.debugScope)]

\* o.insertFlagMetadata(s, outputTgt, ctrl, nil, false)
insertFlagMetadata(level, s, outputTgt, ctrl) ==
    insertFlagMetadataWith(level, s, outputTgt, ctrl, ChanFlags(level, outputTgt))

\* Variant of doPrefixingWith: BlankInsert is added to the insertion mode.
doPrefixingWith_Blank(level, s, outputTgt, ctrl, checkSuppressOnly, onNewline, pfx, chanFlags) ==
    LET ctrl1 == IF ~onNewline /\ HasBit(ctrl, SmartInsert)
                 THEN OrBit(OrBit(ctrl, SkipFirstLine), BlankInsert)
                 ELSE OrBit(ctrl, BlankInsert)
        s1 == InsertPrefix(s, pfx, ctrl1, defaultErrCode)
        ctrl2 == IF env.smartFlagsPrefix = "off" THEN AlwaysInsert ELSE ctrl1
    IN  Bind(insertFlagMetadataWith(level, s1, outputTgt, ctrl2, chanFlags), LAMBDA r :
            [s |-> IF checkSuppressOnly THEN s ELSE r.s,
             suppressOutput |-> r.suppressOutput])

\* o.doPrefixing(s, outputTgt, ctrl, nil, checkSuppressOnly) for the values
\* it read: onNewline (1854-1862), pfx (1872-1874) and the channel's flags
\* (1697-1705).
doPrefixingWith(level, s, outputTgt, ctrl, checkSuppressOnly, onNewline, pfx, chanFlags) ==
    LET ctrl1 == IF ~onNewline /\ HasBit(ctrl, SmartInsert)
                 THEN OrBit(ctrl, SkipFirstLine) ELSE ctrl
        s1 == InsertPrefix(s, pfx, ctrl1, defaultErrCode)
        ctrl2 == IF env.smartFlagsPrefix = "off" THEN AlwaysInsert ELSE ctrl1
    IN  Bind(insertFlagMetadataWith(level, s1, outputTgt, ctrl2, chanFlags), LAMBDA r :
            [s |-> IF checkSuppressOnly THEN s ELSE r.s,
             suppressOutput |-> r.suppressOutput])

\* Variant of doPrefixing: the level prefix is not inserted.
doPrefixing_NoPrefix(level, s, outputTgt, ctrl, checkSuppressOnly) ==
    insertFlagMetadata(level, s, outputTgt, ctrl)

\* o.doPrefixing(s, outputTgt, ctrl, nil, checkSuppressOnly)
doPrefixing(level, s, outputTgt, ctrl, checkSuppressOnly) ==
    doPrefixingWith(level, s, outputTgt, ctrl, checkSuppressOnly,
                    Newline(outputTgt), prefix[level], ChanFlags(level, outputTgt))

(***************************************************************************)
(* Writing to a sink                                                       *)
(***************************************************************************)
\* What one call of writeOutput, or no call, does to one target:
\*   called   - writeOutput ran
\*   writes   - the successful Write calls on the sink, in order, each with
\*              its kind ("msg", "nl" or "trace") and its bytes
\*   err      - the Write that failed: "none", "msg", "nl" or "trace"
\*   panic    - a runtime fault
\*   n        - the byte count returned
\*   short    - the sink reported fewer bytes than the message has
\*   afterMsg - the flag right after the message write
\*   newline  - the flag when writeOutput returns
Wr(kind, bytes) == [kind |-> kind, bytes |-> bytes]

NoWrite(outputTgt) ==
    [called |-> FALSE, writes |-> <<>>, n |-> 0, short |-> FALSE, err |-> "none",
     panic |-> FALSE,
     afterMsg |-> Newline(outputTgt), newline |-> Newline(outputTgt)]

\* Variant of EndsInNewline: the first byte is tested.
EndsInNewline_First(s) == s[1] = NL

\* s[len(s)-1] == 0x0A, for a string that is not empty
EndsInNewline(s) == s[Len(s)] = NL

\* Variant of needsNewline: the newline is written for every emission.
needsNewline_Always(dying, tgtStreamNewline) == ~tgtStreamNewline

\* writeOutput 1942: dying && !*tgtStreamNewline, the corrective newline is due
needsNewline(dying, tgtStreamNewline) == dying /\ ~tgtStreamNewline

\* The bytes of s that a sink takes in the Write that fail describes: a
\* sink that writes short ("short", without an error; "shortErr", with one)
\* takes all bytes but the last, any other sink all of them.
Accepted(s, fail) ==
    IF fail \in {"short", "shortErr"} /\ Len(s) > 0
    THEN SubSeq(s, 1, Len(s) - 1) ELSE s

\* o.writeOutput(s, outputTgt, dying, exitVal, stacktrace); fail names the
\* Write of this call that the sink fails ("msg", "nl", "trace") or writes
\* short ("short", "shortErr": the message), if any.  n is writeLength, the
\* sum of the counts the sink reported.
writeOutput(level, s, outputTgt, dying, exitVal, stacktrace, fail) ==
    IF fail = "msg"
    THEN [called |-> TRUE, writes |-> <<>>, n |-> 0, short |-> Len(s) > 0,
          err |-> "msg", panic |-> FALSE,
          afterMsg |-> Newline(outputTgt), newline |-> Newline(outputTgt)]
    ELSE IF fail = "shortErr"
    THEN [called |-> TRUE,
          writes |-> IF Accepted(s, fail) = <<>> THEN <<>>
                     ELSE << Wr("msg", Accepted(s, fail)) >>,
          n |-> Len(Accepted(s, fail)), short |-> Len(s) > 0,
          err |-> "msg", panic |-> FALSE,
          afterMsg |-> Newline(outputTgt), newline |-> Newline(outputTgt)]
    ELSE IF Len(s) = 0
    THEN \* s[len(s)-1] on an empty string, after the Write of no bytes
         [called |-> TRUE, writes |-> << Wr("msg", s) >>, n |-> 0, short |-> FALSE,
          err |-> "none", panic |-> TRUE,
          afterMsg |-> Newline(outputTgt), newline |-> Newline(outputTgt)]
    ELSE LET endsNl == EndsInNewline(s)
             corrective == needsNewline(dying, endsNl)
             msgW == Wr("msg", Accepted(s, fail))
             n1 == Len(msgW.bytes)
         IN  IF corrective /\ fail = "nl"
             THEN [called |-> TRUE, writes |-> << msgW >>, n |-> n1,
                   short |-> n1 < Len(s), err |-> "nl",
                   panic |-> FALSE, afterMsg |-> endsNl, newline |-> endsNl]
             ELSE LET w2 == IF corrective
                            THEN << msgW, Wr("nl", <<NL>>) >>
                            ELSE << msgW >>
                      n2 == IF corrective THEN n1 + 1 ELSE n1
                      nl2 == IF corrective THEN TRUE ELSE endsNl
                      wanted == stackTraceWanted(level, dying, exitVal, outputTgt)
                  IN  IF wanted /\ fail = "trace"
                      THEN [called |-> TRUE, writes |-> w2, n |-> n2,
                            short |-> n1 < Len(s), err |-> "trace",
                            panic |-> FALSE, afterMsg |-> endsNl, newline |-> nl2]
                      ELSE [called |-> TRUE,
                            writes |-> IF wanted
                                       THEN Append(w2, Wr("trace", stacktrace))
                                       ELSE w2,
                            n |-> IF wanted THEN n2 + Len(stacktrace) ELSE n2,
                            short |-> n1 < Len(s),
                            err |-> "none", panic |-> FALSE,
                            afterMsg |-> endsNl, newline |-> nl2]

\* o.formatter == nil
NoFormatter ==
    [set |-> FALSE, resultStr |-> <<>>, applyMask |-> 0, noOutputMask |-> 0,
     skipNativePfx |-> FALSE]

\* stringOutput 2024-2066: the text, the suppression mask and the prefixing
\* control of one target after the channel's formatter, if any, was asked
FormatWith(f, s, outputTgt) ==
    IF f.set /\ HasBit(f.applyMask, outputTgt)
    THEN [str |-> f.resultStr, noOutputMask |-> f.noOutputMask,
          skipNativePfx |-> f.skipNativePfx]
    ELSE [str |-> s, noOutputMask |-> 0, skipNativePfx |-> FALSE]

\* The same for the formatter of the channel of a level
FormatFor(level, s, outputTgt) == FormatWith(formatter[level], s, outputTgt)

\* The part of stringOutput for one target: the formatter's results, the
\* threshold gate, the prefixing of the message and of the stack trace, and
\* the write.
TargetOutput(level, s, outputTgt, dying, exitVal, fail) ==
    Bind(FormatFor(level, s, outputTgt), LAMBDA fm :
    IF level >= safeThreshold(outputTgt) /\ level # LevelDiscard
       /\ ~HasBit(fm.noOutputMask, outputTgt)
    THEN Bind(doPrefixing(level, fm.str, outputTgt, SmartInsert, fm.skipNativePfx),
              LAMBDA pfx :
         LET stackStr == IF level >= LevelIssue
                            /\ stackTraceWanted(level, dying, exitVal, outputTgt)
                         THEN getStackTrace ELSE <<>>
             pfxStackTrace == IF stackStr # <<>>
                              THEN doPrefixing(level, stackStr, outputTgt, SmartInsert,
                                               fm.skipNativePfx).s
                              ELSE <<>>
         IN  IF ~pfx.suppressOutput
             THEN writeOutput(level, pfx.s, outputTgt, dying, exitVal, pfxStackTrace, fail)
             ELSE NoWrite(outputTgt))
    ELSE NoWrite(outputTgt))

\* Variant of dyingBlock: the protocol runs only after a write.
dyingBlock_IfWritten(dying, scr, log) ==
    /\ dying /\ scr.err = "none" /\ ~scr.panic /\ log.err = "none" /\ ~log.panic
    /\ (scr.called \/ log.called)

\* stringOutput 2106: the dying block is reached, no write having returned
\* an error or faulted before it
dyingBlock(dying, scr, log) ==
    dying /\ scr.err = "none" /\ ~scr.panic /\ log.err = "none" /\ ~log.panic

\* Variant of stringOutput: the logfile is written after a failed screen
\* write too.
stringOutput_Continues(level, s, dying, exitVal, failScreen, failLogfile) ==
    Bind(TargetOutput(level, s, ForScreen, dying, exitVal, failScreen), LAMBDA scr :
    Bind(IF scr.panic THEN NoWrite(ForLogfile)
         ELSE TargetOutput(level, s, ForLogfile, dying, exitVal, failLogfile),
         LAMBDA log :
        [scr |-> scr, log |-> log,
         n |-> log.n + scr.n,
         err |-> IF scr.err # "none" THEN scr.err ELSE log.err,
         errTgt |-> IF scr.err # "none" THEN ForScreen
                    ELSE IF log.err # "none" THEN ForLogfile ELSE 0,
         panic |-> scr.panic \/ log.panic,
         protocol |-> dyingBlock(dying, scr, log)]))

\* o.stringOutput(s, dying, exitVal): the screen, then the logfile unless the
\* screen write failed, then the termination protocol when dying.
\*   n           - the byte count returned (2082, 2100, 2117)
\*   err, errTgt - the error returned and the target it came from
\*   protocol    - the dying block at the end was reached
stringOutput(level, s, dying, exitVal, failScreen, failLogfile) ==
    Bind(TargetOutput(level, s, ForScreen, dying, exitVal, failScreen), LAMBDA scr :
    Bind(IF scr.err # "none" \/ scr.panic THEN NoWrite(ForLogfile)
         ELSE TargetOutput(level, s, ForLogfile, dying, exitVal, failLogfile),
         LAMBDA log :
        [scr |-> scr, log |-> log,
         n |-> IF scr.err # "none" THEN scr.n ELSE log.n + scr.n,
         err |-> IF scr.err # "none" THEN scr.err ELSE log.err,
         errTgt |-> IF scr.err # "none" THEN ForScreen
                    ELSE IF log.err # "none" THEN ForLogfile ELSE 0,
         panic |-> scr.panic \/ log.panic,
         protocol |-> dyingBlock(dying, scr, log)]))

(***************************************************************************)
(* Initial state: the package defaults                                     *)
(***************************************************************************)
Str_Trace == <<"T","r","a","c","e",":"," ">>
Str_Debug == <<"D","e","b","u","g",":"," ">>
Str_Note == <<"N","o","t","e",":"," ">>
Str_Issue == <<"I","s","s","u","e",":"," ">>
Str_Error == <<"E","r","r","o","r",":"," ">>
Str_Fatal == <<"F","a","t","a","l",":"," ">>

\* The prefix field of TRACE .. FATAL
defaultPrefix ==
    [l \in Levels |->
        CASE l = LevelTrace -> Str_Trace
          [] l = LevelDebug -> Str_Debug
          [] l = LevelNote -> Str_Note
          [] l = LevelIssue -> Str_Issue
          [] l = LevelError -> Str_Error
          [] l = LevelFatal -> Str_Fatal
          [] OTHER -> <<>>]

\* The environment at the start: none of the variables is set
EnvDefault ==
    [noExit |-> FALSE, stackTraceConfig |-> <<>>, smartFlagsPrefix |-> "on",
     screenFlags |-> <<>>, logfileFlags |-> <<>>, debugScope |-> <<>>]

\* The callers of the concurrent specifications
Procs == {"p1", "p2"}

\* The local values of a concurrent caller that is in no call
Idle ==
    [id |-> 0, level |-> 0, msg |-> <<>>, dying |-> FALSE, exitVal |-> 0,
     formatter |-> NoFormatter, safeScreenThreshold |-> 0, safeLogThreshold |-> 0,
     screenStackTrace |-> <<>>, logfileStackTrace |-> <<>>,
     outputTgt |-> 0, part |-> "msg", onNewline |-> TRUE, prefix |-> <<>>,
     pfxStr |-> <<>>, pfxStackTrace |-> <<>>, hndl |-> "none", mark |-> -1,
     seen |-> {}, used |-> [prefix |-> {}, flags |-> {}, hndl |-> {}],
     call |-> [name |-> "none", level |-> 0, tgt |-> 0, val |-> 0, pfx |-> <<>>,
               w |-> "none", nl |-> TRUE, msg |-> <<>>,
               active |-> {}, cfgTgts |-> {}, wanted |-> {}],
     ip |-> 0, holds |-> {}]

\* The operation record of a call that emits nothing
Quiet(op) ==
    [op |-> op, level |-> 0, form |-> "none", msg |-> <<>>, terminal |-> FALSE, exitVal |-> 0,
     tgt |-> 0, arg |-> 0, val |-> 0,
     nlScreen |-> screenNewline, nlLogfile |-> logfileNewline,
     afterMsgScreen |-> screenNewline, afterMsgLogfile |-> logfileNewline,
     n |-> 0, short |-> {}, err |-> "none", errTgt |-> 0, failed |-> {}]

\* The state after construction, but for the record of the last call
InitButLast ==
    /\ screenThreshold = defaultScreenThreshold
    /\ logThreshold = defaultLogThreshold
    /\ screenNewline = TRUE
    /\ logfileNewline = TRUE
    /\ stackTraceConfig = StackTraceExitToLogfile
    /\ errorExitVal = defaultErrorExitVal
    /\ deferFunc = 0
    /\ prefix = defaultPrefix
    /\ screenHndl = [l \in Levels |-> IF l >= LevelError THEN "stderr" ELSE "stdout"]
    /\ screenFlags = [l \in Levels |-> IF l <= LevelDebug THEN LscreenFlags ELSE 0]
    /\ logfileHndl = [l \in Levels |-> "discard"]
    /\ logFlags = [l \in Levels |-> LlogfileFlags]
    /\ formatter = [l \in Levels |-> NoFormatter]
    /\ env = EnvDefault
    /\ written = [w \in Sinks |-> <<>>]
    /\ tgtNl = [t \in Targets |-> TRUE]
    /\ tgtSink = [t \in Targets |-> "none"]
    /\ resetCalled = FALSE
    /\ diag = <<>>
    /\ hookCalls = <<>>
    /\ hookRun = <<>>
    /\ exited = FALSE
    /\ exitCode = 0
    /\ panicked = FALSE
    /\ blocked = FALSE
    /\ pc = [g \in Procs |-> "idle"]
    /\ loc = [g \in Procs |-> Idle]
    /\ calls = 0
    /\ sinkLog = <<>>

Init ==
    /\ InitButLast
    /\ last = [op |-> "init", level |-> 0, form |-> "none", msg |-> <<>>, terminal |-> FALSE,
               exitVal |-> 0, tgt |-> 0, arg |-> 0, val |-> 0,
               nlScreen |-> TRUE, nlLogfile |-> TRUE,
               afterMsgScreen |-> TRUE, afterMsgLogfile |-> TRUE,
               n |-> 0, short |-> {}, err |-> "none", errTgt |-> 0, failed |-> {}]

\* The process is running: os.Exit was not called, nothing panicked and the
\* caller is not waiting for a lock.
Alive == ~exited /\ ~panicked /\ ~blocked

\* The bytes of a sequence of writes, in order
RECURSIVE Flatten(_)
Flatten(ws) == IF ws = <<>> THEN <<>> ELSE Head(ws).bytes \o Flatten(Tail(ws))

\* The bytes the last operation wrote to a sink, and to the sinks of a target
Bytes(w) == Flatten(written[w])
TargetWrites(outputTgt) ==
    IF outputTgt = ForScreen THEN written["stdout"] \o written["stderr"]
    ELSE written["discard"] \o written["logfile"]
TargetBytes(outputTgt) == Flatten(TargetWrites(outputTgt))

\* mutex.Lock() by a caller: sync.RWMutex is not reentrant, the Lock of a
\* caller that holds the lock never returns
lockBlocks(heldByCaller) == heldByCaller

\* The hooks of the client that call back into the package, by what they
\* call; every other hook calls nothing of the package
Hook_Noteln == -1
Hook_SetThreshold == -2
Hook_ResetNewline == -3
Hook_SetDeferFunc == -4

\* The package function a hook calls, "none" when it calls none
hookCallee(h) ==
    CASE h = Hook_Noteln -> "Noteln"
      [] h = Hook_SetThreshold -> "SetThreshold"
      [] h = Hook_ResetNewline -> "ResetNewline"
      [] h = Hook_SetDeferFunc -> "SetDeferFunc"
      [] OTHER -> "none"

\* The functions that take the package lock with mutex.Lock(): Noteln 962,
\* SetThreshold 416 and 422, ResetNewline 709, SetDeferFunc 387
TakesLock == {"Noteln", "SetThreshold", "ResetNewline", "SetDeferFunc"}

\* Variant of hookBlocks: the lock lets the caller that holds it in.
hookBlocks_Never(h) == FALSE

\* deferFunc(...) is called between mutex.RLock() and mutex.RUnlock() (1317-
\* 1321, 1348-1352, 1379-1383, 1486-1490, 1506-1510, 2107-2111): the hook h
\* runs while its caller holds the lock, so a mutex.Lock() in what it calls
\* never returns, and neither does the hook
hookBlocks(h) == hookCallee(h) \in TakesLock /\ lockBlocks(TRUE)

\* deferFunc(...) at 1320, 1351, 1382, 1489, 1508 and 2109: each call runs
\* the hook that deferFunc holds
Invoked(hookArgs) ==
    IF hookArgs = <<>> THEN <<>> ELSE [i \in 1 .. Len(hookArgs) |-> deferFunc]

\* What a call that writes nothing leaves of the observations; rec is
\* the record of the call
CallObs(rec) ==
    /\ written' = [w \in Sinks |-> <<>>]
    /\ diag' = <<>>
    /\ hookCalls' = <<>>
    /\ hookRun' = Invoked(hookCalls')
    /\ last' = rec
    /\ UNCHANGED << tgtNl, tgtSink, exited, exitCode, panicked, blocked, conc >>

\* What a configuration call leaves of the observations
QuietObs(op) == CallObs(Quiet(op))

(***************************************************************************)
(* Configuration calls and queries                                         *)
(***************************************************************************)
SetThreshold(sc) ==
    \E level \in sc.thrLevels, outputTgt \in sc.thrTgts :
        /\ Alive
        /\ screenThreshold' = IF HasBit(outputTgt, ForScreen)
                              THEN levelCheck(level) ELSE screenThreshold
        /\ logThreshold' = IF HasBit(outputTgt, ForLogfile)
                           THEN levelCheck(level) ELSE logThreshold
        /\ CallObs([Quiet("SetThreshold") EXCEPT !.arg = level, !.tgt = outputTgt])
        /\ UNCHANGED << stackTraceConfig, errorExitVal, deferFunc, prefix, screenHndl,
                        screenFlags, logfileHndl, logFlags, formatter, env, flags2,
                        resetCalled >>

Discard(sc) ==
    \E outputTgt \in sc.thrTgts :
        /\ Alive
        /\ screenThreshold' = IF HasBit(outputTgt, ForScreen)
                              THEN levelCheck(LevelDiscard) ELSE screenThreshold
        /\ logThreshold' = IF HasBit(outputTgt, ForLogfile)
                           THEN levelCheck(LevelDiscard) ELSE logThreshold
        /\ CallObs([Quiet("Discard") EXCEPT !.tgt = outputTgt])
        /\ UNCHANGED << stackTraceConfig, errorExitVal, deferFunc, prefix, screenHndl,
                        screenFlags, logfileHndl, logFlags, formatter, env, flags2,
                        resetCalled >>

SetStackTraceConfig(sc) ==
    \E cfg \in sc.stackCfgs :
        /\ Alive
        /\ stackTraceConfig' = cfg
        /\ QuietObs("config")
        /\ UNCHANGED << screenThreshold, logThreshold, errorExitVal, deferFunc, prefix,
                        screenHndl, screenFlags, logfileHndl, logFlags, formatter, env,
                        flags2, resetCalled >>

\* Variant of SetDeferFuncStore: a hook, once registered, stays.
SetDeferFuncStore_KeepFirst(registered, dFunc) ==
    IF registered # 0 THEN registered ELSE dFunc

\* SetDeferFunc 389: deferFunc = dFunc
SetDeferFuncStore(registered, dFunc) == dFunc

SetDeferFunc(sc) ==
    \E dFunc \in sc.hooks :
        /\ Alive
        /\ deferFunc' = SetDeferFuncStore(deferFunc, dFunc)
        /\ CallObs([Quiet("SetDeferFunc") EXCEPT !.arg = dFunc])
        /\ UNCHANGED << screenThreshold, logThreshold, stackTraceConfig, errorExitVal,
                        prefix, screenHndl, screenFlags, logfileHndl, logFlags,
                        formatter, env, flags2, resetCalled >>

SetErrorExitVal(sc) ==
    \E val \in sc.errorExitVals :
        /\ Alive
        /\ errorExitVal' = val
        /\ QuietObs("config")
        /\ UNCHANGED << screenThreshold, logThreshold, stackTraceConfig, deferFunc,
                        prefix, screenHndl, screenFlags, logfileHndl, logFlags,
                        formatter, env, flags2, resetCalled >>

\* What SetWriter(level, w, outputTgt) stores in the channels
SetWriterStore(level, w, outputTgt) ==
    /\ screenHndl' = [l \in Levels |->
           IF (level = LevelAll \/ l = level) /\ HasBit(outputTgt, ForScreen)
           THEN w ELSE screenHndl[l]]
    /\ logfileHndl' = [l \in Levels |->
           IF (level = LevelAll \/ l = level) /\ HasBit(outputTgt, ForLogfile)
           THEN w ELSE logfileHndl[l]]
    /\ UNCHANGED << screenThreshold, logThreshold, stackTraceConfig, errorExitVal,
                    deferFunc, prefix, screenFlags, logFlags, formatter, env >>

\* SetWriter(level, w, outputTgt); a screen sink is given for the screen and
\* a logfile sink for the logfile, any sink for both.
SetWriter(sc) ==
    \E level \in sc.writerLevels, outputTgt \in sc.writerTgts :
      \E w \in sc.writers \cap (IF outputTgt = ForScreen THEN ScreenSinks
                               ELSE IF outputTgt = ForLogfile THEN LogSinks
                               ELSE Sinks) :
        /\ Alive
        /\ SetWriterStore(level, w, outputTgt)
        /\ CallObs([Quiet("SetWriter") EXCEPT !.arg = level, !.tgt = outputTgt])
        /\ UNCHANGED << flags2, resetCalled >>

\* Variant of SetFlagsStore: the flags are stored for both targets.
SetFlagsStore_BothTargets(level, flags, outputTgt) ==
    /\ screenFlags' = [l \in Levels |->
           IF level = LevelAll \/ l = level THEN flags ELSE screenFlags[l]]
    /\ logFlags' = [l \in Levels |->
           IF level = LevelAll \/ l = level THEN flags ELSE logFlags[l]]
    /\ UNCHANGED << screenThreshold, logThreshold, stackTraceConfig, errorExitVal,
                    deferFunc, prefix, screenHndl, logfileHndl, formatter, env >>

\* What SetFlags(level, flags, outputTgt) stores in the channels: the level
\* is compared as it is given
SetFlagsStore(level, flags, outputTgt) ==
    /\ screenFlags' = [l \in Levels |->
           IF (level = LevelAll \/ l = level) /\ HasBit(outputTgt, ForScreen)
           THEN flags ELSE screenFlags[l]]
    /\ logFlags' = [l \in Levels |->
           IF (level = LevelAll \/ l = level) /\ HasBit(outputTgt, ForLogfile)
           THEN flags ELSE logFlags[l]]
    /\ UNCHANGED << screenThreshold, logThreshold, stackTraceConfig, errorExitVal,
                    deferFunc, prefix, screenHndl, logfileHndl, formatter, env >>

\* SetFlags(level, flags, outputTgt)
SetFlags(sc) ==
    \E level \in sc.flagLevels, flags \in sc.flagVals, outputTgt \in sc.flagTgts :
        /\ Alive
        /\ SetFlagsStore(level, flags, outputTgt)
        /\ CallObs([Quiet("SetFlags") EXCEPT !.arg = level, !.tgt = outputTgt,
                                             !.val = flags])
        /\ UNCHANGED << flags2, resetCalled >>

\* What SetPrefix(level, prefix) stores in the channels: nothing for the
\* level Discard
SetPrefixStore(level, pfx) ==
    /\ prefix' = [l \in Levels |-> IF l = levelCheck(level) THEN pfx ELSE prefix[l]]
    /\ UNCHANGED << screenThreshold, logThreshold, stackTraceConfig, errorExitVal,
                    deferFunc, screenHndl, screenFlags, logfileHndl, logFlags,
                    formatter, env >>

\* SetPrefix(level, prefix)
SetPrefix(sc) ==
    \E level \in sc.prefixLevels, pfx \in sc.prefixes :
        /\ Alive
        /\ SetPrefixStore(level, pfx)
        /\ CallObs([Quiet("SetPrefix") EXCEPT !.arg = level])
        /\ UNCHANGED << flags2, resetCalled >>

\* The formatter field of the channel of a level is set (the field of 242,
\* read at 1995); f stands for the plugin and holds what its FormatMessage
\* returns.
SetFormatter(sc) ==
    \E level \in sc.formatterLevels, f \in sc.formatters :
        /\ Alive
        /\ formatter' = [formatter EXCEPT ![level] = f]
        /\ QuietObs("config")
        /\ UNCHANGED << screenThreshold, logThreshold, stackTraceConfig, errorExitVal,
                        deferFunc, prefix, screenHndl, screenFlags, logfileHndl,
                        logFlags, env, flags2, resetCalled >>

ResetNewline(sc) ==
    \E val \in sc.resetVals, outputTgt \in sc.resetTgts :
        /\ Alive
        /\ screenNewline' = IF HasBit(outputTgt, ForScreen) THEN val ELSE screenNewline
        /\ logfileNewline' = IF HasBit(outputTgt, ForLogfile) THEN val ELSE logfileNewline
        /\ resetCalled' = TRUE
        /\ written' = [w \in Sinks |-> <<>>]
        /\ diag' = <<>>
        /\ hookCalls' = <<>>
        /\ hookRun' = Invoked(hookCalls')
        /\ last' = [Quiet("config") EXCEPT !.nlScreen = screenNewline',
                                           !.nlLogfile = logfileNewline',
                                           !.afterMsgScreen = screenNewline',
                                           !.afterMsgLogfile = logfileNewline']
        /\ UNCHANGED << config, tgtNl, tgtSink, exited, exitCode, panicked, blocked,
                        conc >>

\* The environment changes between two calls: PKG_OUT_NO_EXIT,
\* PKG_OUT_STACK_TRACE_CONFIG, PKG_OUT_SMART_FLAGS_PREFIX,
\* PKG_OUT_SCREEN_FLAGS, PKG_OUT_LOGFILE_FLAGS, PKG_OUT_DEBUG_SCOPE.
Setenv(sc) ==
    \E e \in sc.envs :
        /\ Alive
        /\ env' = e
        /\ QuietObs("config")
        /\ UNCHANGED << screenThreshold, logThreshold, stackTraceConfig, errorExitVal,
                        deferFunc, prefix, screenHndl, screenFlags, logfileHndl,
                        logFlags, formatter, flags2, resetCalled >>

(***************************************************************************)
(* Emissions                                                               *)
(***************************************************************************)
\* The sinks' share of an operation on the channel of level: what the
\* screen handle and the logfile handle received (scr, log: write results).
\* The history variables follow the writes in the specifications that keep
\* a history (sc.history).
SinkEffects(sc, level, scr, log) ==
    LET res(t) == IF t = ForScreen THEN scr ELSE log
        got(t) == Flatten(res(t).writes)
    IN  /\ written' = [w \in Sinks |->
               IF scr.called /\ w = screenHndl[level] THEN scr.writes
               ELSE IF log.called /\ w = logfileHndl[level] THEN log.writes
               ELSE <<>>]
        /\ tgtNl' = [t \in Targets |->
               IF sc.history /\ got(t) # <<>>
               THEN got(t)[Len(got(t))] = NL ELSE tgtNl[t]]
        /\ tgtSink' = [t \in Targets |->
               IF sc.history /\ got(t) # <<>>
               THEN IF tgtSink[t] \in {"none", Hndl(level, t)}
                    THEN Hndl(level, t) ELSE "mixed"
               ELSE tgtSink[t]]

\* The targets whose sink took less than the message it was given
ShortTargets(scr, log) ==
    (IF scr.short THEN {ForScreen} ELSE {})
        \cup (IF log.short THEN {ForLogfile} ELSE {})

\* The targets whose sink failed a Write, given the two write results
FailedTargets(scr, log) ==
    (IF scr.err # "none" THEN {ForScreen} ELSE {})
        \cup (IF log.err # "none" THEN {ForLogfile} ELSE {})

OpRecord(op, level, form, msg, terminal, exitVal, r) ==
    [op |-> op, level |-> level, form |-> form, msg |-> msg, terminal |-> terminal,
     exitVal |-> exitVal, tgt |-> 0, arg |-> 0, val |-> 0,
     nlScreen |-> screenNewline, nlLogfile |-> logfileNewline,
     afterMsgScreen |-> r.scr.afterMsg, afterMsgLogfile |-> r.log.afterMsg,
     n |-> r.n, short |-> ShortTargets(r.scr, r.log),
     err |-> r.err, errTgt |-> r.errTgt,
     failed |-> FailedTargets(r.scr, r.log)]

\* The exit value the dying block of stringOutput hands to the hook and
\* to os.Exit for a call made with exitVal
dyingExitVal(exitVal) == errorExitVal

\* Variant of failurePath: an error of stringOutput is ignored.
failurePath_Never(r, terminal) == FALSE

\* output, outputln and outputf run their failure path (diagnostic, hook,
\* os.Exit) when stringOutput returned an error
failurePath(r, terminal) == r.err # "none"

\* The hook calls of output/outputln/outputf around stringOutput
outputHookCalls(r, terminal, exitVal) ==
    IF r.panic \/ deferFunc = 0 THEN <<>>
    ELSE IF r.protocol THEN << dyingExitVal(exitVal) >>
    ELSE IF failurePath(r, terminal) THEN << errorExitVal >>
    ELSE <<>>

\* o.output / o.outputln / o.outputf(terminal, exitVal, text) by form; r is
\* the outcome of its one call of stringOutput.
Output(sc, level, form, text, terminal, exitVal, failScreen, failLogfile) ==
    /\ Alive
    /\ \E msg \in {IF form = "line" THEN text \o <<NL>> ELSE text} :
       \E r \in {stringOutput(level, msg, terminal, exitVal, failScreen, failLogfile)} :
       \E stuck \in {outputHookCalls(r, terminal, exitVal) # <<>> /\ hookBlocks(deferFunc)} :
       \E leave \in {~r.panic /\ ~stuck /\ (r.protocol \/ failurePath(r, terminal))
                       /\ ~env.noExit} :
        /\ SinkEffects(sc, level, r.scr, r.log)
        /\ screenNewline' = r.scr.newline
        /\ logfileNewline' = r.log.newline
        /\ diag' = IF ~r.panic /\ failurePath(r, terminal)
                   THEN << [tgt |-> r.errTgt, what |-> r.err] >> ELSE <<>>
        /\ hookCalls' = outputHookCalls(r, terminal, exitVal)
        /\ hookRun' = Invoked(hookCalls')
        /\ exited' = leave
        /\ exitCode' = IF leave
                       THEN (IF r.protocol THEN dyingExitVal(exitVal) ELSE errorExitVal)
                       ELSE exitCode
        /\ panicked' = r.panic
        /\ blocked' = stuck
        /\ last' = OpRecord("emit", level, form, msg, terminal, exitVal, r)
        /\ UNCHANGED << config, resetCalled, conc >>

\* Trace, Debug, Verbose, Print/Info, Note, Issue, Error and their ln and f forms
Emit(sc) ==
    \E level \in sc.levels \ {LevelFatal}, form \in sc.forms, text \in sc.texts,
       f \in sc.fails :
        Output(sc, level, form, text, FALSE, 0, f[1], f[2])

\* IssueExit, ErrorExit and their ln and f forms
EmitExit(sc) ==
    \E level \in sc.exitLevels, exitVal \in sc.exitVals,
       form \in sc.forms, text \in sc.texts, f \in sc.fails :
        Output(sc, level, form, text, TRUE, exitVal, f[1], f[2])

\* Fatal, Fatalln, Fatalf
Fatal(sc) ==
    \E form \in sc.forms, text \in sc.texts, f \in sc.fails :
        Output(sc, LevelFatal, form, text, TRUE, errorExitVal, f[1], f[2])

\* o.Write(p): the io.Writer form; the error is returned to the caller.
ChannelWrite(sc, level, op, arg) ==
    /\ Alive
    /\ \E p \in sc.texts, f \in sc.fails :
       \E r \in {stringOutput(level, p, FALSE, 0, f[1], f[2])} :
        /\ SinkEffects(sc, level, r.scr, r.log)
        /\ screenNewline' = r.scr.newline
        /\ logfileNewline' = r.log.newline
        /\ diag' = <<>>
        /\ hookCalls' = <<>>
        /\ hookRun' = Invoked(hookCalls')
        /\ panicked' = r.panic
        /\ last' = [OpRecord(op, level, "write", p, FALSE, 0, r) EXCEPT !.arg = arg]
        /\ UNCHANGED << config, resetCalled, exited, exitCode, blocked, conc >>

\* A channel of the scope is written to: fmt.Fprint(out.NOTE, p)
Write(sc) == \E level \in sc.writeLevels : ChannelWrite(sc, level, "write", 0)

\* Variant of LevelWriter: the channel of any other level is NOTE.
LevelWriter_DefaultNote(l) ==
    IF levelCheck(l) \in Levels THEN levelCheck(l) ELSE LevelNote

\* LevelWriter(l): the level of the channel returned
LevelWriter(l) ==
    IF levelCheck(l) \in Levels THEN levelCheck(l) ELSE LevelInfo

\* LevelWriter(l).Write(p): the channel that LevelWriter returns is written
\* to; the call is recorded with the level asked for.
LevelWriterWrite(sc) ==
    \E l \in sc.writerArgs : ChannelWrite(sc, LevelWriter(l), "LevelWriter", l)

(***************************************************************************)
(* Queries                                                                 *)
(***************************************************************************)
\* The text of the Fatalln call of Threshold
Msg_Threshold ==
    <<"I", "n", "v", "a", "l", "i", "d", " ", "s", "c", "r", "e", "e", "n",
      "/", "l", "o", "g", "f", "i", "l", "e", " ", "g", "i", "v", "e", "n",
      " ", "f", "o", "r", " ", "T", "h", "r", "e", "s", "h", "o", "l", "d",
      "(", ")" >>

\* The text of the Fatalln call of Flags
Msg_Flags ==
    <<"I", "n", "v", "a", "l", "i", "d", " ", "i", "d", "e", "n", "t", "i",
      "f", "i", "c", "a", "t", "i", "o", "n", " ", "o", "f", " ", "s", "c",
      "r", "e", "e", "n", " ", "o", "r", " ", "l", "o", "g", "f", "i", "l",
      "e", " ", "t", "a", "r", "g", "e", "t", " ", "f", "o", "r", " ", "F",
      "l", "a", "g", "s", "(", ")" >>

\* outputTgt&ForScreen != 0 or outputTgt&ForLogfile != 0
ValidTarget(outputTgt) == HasBit(outputTgt, ForScreen) \/ HasBit(outputTgt, ForLogfile)

\* Threshold(outputTgt): the lock taken at 397 is held until the return;
\* for a target without the screen and the logfile bit Fatalln is called
\* under it, and Fatalln starts with mutex.Lock() (1028).
Threshold(sc) ==
    \E outputTgt \in sc.queryTgts, f \in sc.fails :
        IF ~ValidTarget(outputTgt) /\ ~lockBlocks(TRUE)
        THEN Output(sc, LevelFatal, "line", Msg_Threshold, TRUE, errorExitVal, f[1], f[2])
        ELSE /\ Alive
             /\ blocked' = ~ValidTarget(outputTgt)
             /\ written' = [w \in Sinks |-> <<>>]
             /\ diag' = <<>>
             /\ hookCalls' = <<>>
             /\ hookRun' = Invoked(hookCalls')
             /\ last' = [Quiet("Threshold") EXCEPT
                    !.tgt = outputTgt,
                    !.val = IF HasBit(outputTgt, ForScreen) THEN screenThreshold
                            ELSE IF HasBit(outputTgt, ForLogfile) THEN logThreshold
                            ELSE 0]
             /\ UNCHANGED << config, flags2, tgtNl, tgtSink, resetCalled, exited,
                             exitCode, panicked, conc >>

\* Flags(level, outputTgt): the flags of the channel of levelCheck(level);
\* for a target without the screen and the logfile bit that channel, if
\* there is one, calls Fatalln, no lock being held.
Flags(sc) ==
    \E level \in sc.flagLevels, outputTgt \in sc.queryTgts, f \in sc.fails :
        IF levelCheck(level) \in Levels /\ ~ValidTarget(outputTgt)
        THEN Output(sc, LevelFatal, "line", Msg_Flags, TRUE, errorExitVal, f[1], f[2])
        ELSE /\ Alive
             /\ CallObs([Quiet("Flags") EXCEPT
                    !.arg = level, !.tgt = outputTgt,
                    !.val = IF levelCheck(level) \notin Levels THEN 0
                            ELSE IF HasBit(outputTgt, ForScreen)
                                 THEN screenFlags[levelCheck(level)]
                                 ELSE logFlags[levelCheck(level)]])
             /\ UNCHANGED << config, flags2, resetCalled >>

(***************************************************************************)
(* Exit                                                                    *)
(***************************************************************************)
\* The part of o.exit for one target: the stack trace written when it is
\* wanted and the level passes the threshold; fail: the sink fails the Write.
exitTrace(level, exitVal, outputTgt, fail) ==
    IF stackTraceWanted(level, TRUE, exitVal, outputTgt)
       /\ level >= safeThreshold(outputTgt) /\ level # LevelDiscard
    THEN LET pfx == doPrefixing(level, getStackTrace, outputTgt, SmartInsert, FALSE)
         IN  IF ~pfx.suppressOutput /\ pfx.s # <<>>
             THEN [called |-> TRUE,
                   writes |-> IF fail THEN <<>> ELSE << Wr("trace", pfx.s) >>,
                   n |-> 0, short |-> FALSE, err |-> IF fail THEN "trace" ELSE "none", panic |-> FALSE,
                   afterMsg |-> Newline(outputTgt), newline |-> Newline(outputTgt)]
             ELSE NoWrite(outputTgt)
    ELSE NoWrite(outputTgt)

\* The hook calls of o.exit(exitVal): after a failed screen write with the
\* error exit value, and at its end with exitVal.
exitHookCalls(scr, exitVal) ==
    IF deferFunc = 0 THEN <<>>
    ELSE IF scr.err # "none"
         THEN IF env.noExit /\ ~hookBlocks(deferFunc)
              THEN << errorExitVal, exitVal >> ELSE << errorExitVal >>
    ELSE << exitVal >>

\* Variant of exitChannel: FATAL whatever the exit value.
exitChannel_Fatal(exitVal) == LevelFatal

\* Exit 1158-1162: the level of the channel whose exit method runs
exitChannel(exitVal) == IF exitVal # 0 THEN LevelFatal ELSE LevelInfo

\* Exit(exitVal): through FATAL when exitVal is not 0, through INFO otherwise
Exit(sc) ==
    /\ Alive
    /\ \E exitVal \in sc.exitVals, failScreen \in sc.exitFails,
          failLogfile \in sc.exitFails :
       \E level \in {exitChannel(exitVal)} :
       \E scr \in {exitTrace(level, exitVal, ForScreen, failScreen)} :
       \E stuck \in {deferFunc # 0 /\ hookBlocks(deferFunc)} :
       \E gone \in {scr.err # "none" /\ (~env.noExit \/ stuck)} :
       \E log \in {IF gone THEN NoWrite(ForLogfile)
                    ELSE exitTrace(level, exitVal, ForLogfile, failLogfile)} :
        /\ SinkEffects(sc, level, scr, log)
        /\ diag' = IF scr.err # "none"
                   THEN << [tgt |-> ForScreen, what |-> "trace"] >> ELSE <<>>
        /\ hookCalls' = exitHookCalls(scr, exitVal)
        /\ hookRun' = Invoked(hookCalls')
        /\ exited' = (~env.noExit /\ ~stuck)
        /\ blocked' = stuck
        /\ exitCode' = IF env.noExit \/ stuck THEN exitCode
                       ELSE IF gone THEN errorExitVal ELSE exitVal
        /\ last' = [op |-> "exit", level |-> level, form |-> "none", msg |-> <<>>,
                    terminal |-> TRUE, exitVal |-> exitVal,
                    tgt |-> 0, arg |-> 0, val |-> 0,
                    nlScreen |-> screenNewline, nlLogfile |-> logfileNewline,
                    afterMsgScreen |-> screenNewline,
                    afterMsgLogfile |-> logfileNewline,
                    n |-> 0, short |-> FALSE, err |-> "none", errTgt |-> 0,
                    failed |-> FailedTargets(scr, log)]
        /\ UNCHANGED << config, flags2, resetCalled, panicked, conc >>

(***************************************************************************)
(* Bounds and input sets                                                   *)
(***************************************************************************)
MaxExitVal == 2
OutOfRange == 1
MaxHook == 1

T_hi == <<"h", "i">>
T_a == <<"a">>
T_a_sp == <<"a", " ">>
T_b == <<"b">>
T_c == <<"c">>
T_b_c == <<"b", NL, "c">>

NoFail == <<"none", "none">>

\* Threshold arguments: below the range, Info, Issue, Discard, the All
\* selector, above the range
ThresholdArgs ==
    {LevelTrace - OutOfRange, LevelInfo, LevelIssue, LevelDiscard, LevelAll,
     LevelAll + OutOfRange}

(***************************************************************************)
(* Spec: thresholds and the routing of emissions to the two targets       *)
(***************************************************************************)
RouteScope ==
    [thrLevels |-> ThresholdArgs,
     thrTgts |-> {ForScreen, ForLogfile, ForBoth},
     levels |-> Levels,
     exitLevels |-> {LevelIssue, LevelError},
     writeLevels |-> Levels,
     forms |-> {"print", "line"},
     texts |-> {T_hi, T_a},
     history |-> FALSE,
     exitVals |-> 0 .. MaxExitVal,
     fails |-> {NoFail},
     exitFails |-> {FALSE}]

NextRoute ==
    \/ SetThreshold(RouteScope)
    \/ Discard(RouteScope)
    \/ Emit(RouteScope)
    \/ EmitExit(RouteScope)
    \/ Fatal(RouteScope)
    \/ Write(RouteScope)
    \/ Exit(RouteScope)

Spec == Init /\ [][NextRoute]_vars

\* C1: after any SetThreshold/Discard calls, an emission on the channel of
\* level L writes to the sink of a target T (message, corrective newline or
\* stack trace) only if L >= threshold(T), and nothing is written to T when
\* threshold(T) is Discard.
C1_ThresholdGate ==
    /\ TargetWrites(ForScreen) # <<>> =>
           (last.level >= screenThreshold /\ screenThreshold # LevelDiscard)
    /\ TargetWrites(ForLogfile) # <<>> =>
           (last.level >= logThreshold /\ logThreshold # LevelDiscard)

\* An Issue emission with the logfile threshold moved to Issue and the screen
\* discarded: the logfile sink is written, the screen sink is not.
C1_Witness ==
    /\ last.op = "emit" /\ last.level = LevelIssue
    /\ logThreshold = LevelIssue /\ screenThreshold = LevelDiscard
    /\ TargetWrites(ForLogfile) # <<>>
    /\ TargetWrites(ForScreen) = <<>>

\* C2: in the initial configuration (screen threshold Info, logfile threshold
\* Discard, no environment override, both streams on a fresh line) the line
\* form at level L with a single-line text writes prefix(L) + text + newline
\* to the screen sink when L >= Info and nothing when L < Info, and nothing
\* to the logfile sink; at Note with "hi" the screen gets "Note: hi\n".
C2_InitialLine ==
    ( /\ last.op = "emit" /\ last.form = "line"
      /\ screenThreshold = defaultScreenThreshold
      /\ logThreshold = defaultLogThreshold
      /\ last.nlScreen /\ last.nlLogfile
      /\ env.stackTraceConfig = <<>> /\ env.smartFlagsPrefix = "on" )
    => /\ TargetBytes(ForScreen) =
              IF last.level >= LevelInfo
              THEN defaultPrefix[last.level] \o last.msg ELSE <<>>
       /\ Bytes(screenHndl[last.level]) = TargetBytes(ForScreen)
       /\ TargetBytes(ForLogfile) = <<>>
       /\ (last.level = LevelNote /\ last.msg = T_hi \o <<NL>>)
              => Bytes("stdout") = <<"N", "o", "t", "e", ":", " ", "h", "i", NL>>

\* Noteln("hi") in the initial configuration
C2_Witness ==
    /\ last.op = "emit" /\ last.form = "line" /\ last.level = LevelNote
    /\ last.msg = T_hi \o <<NL>>
    /\ screenThreshold = defaultScreenThreshold
    /\ logThreshold = defaultLogThreshold
    /\ last.nlScreen /\ last.nlLogfile
    /\ Bytes("stdout") = <<"N", "o", "t", "e", ":", " ", "h", "i", NL>>

(***************************************************************************)
(* SpecFlag: the continuation flags across successive emissions           *)
(***************************************************************************)
FlagScope ==
    [thrLevels |-> {LevelTrace, LevelDiscard},
     thrTgts |-> {ForLogfile},
     resetVals |-> BOOLEAN,
     resetTgts |-> {ForScreen, ForLogfile, ForBoth},
     levels |-> {LevelInfo, LevelNote},
     exitLevels |-> {LevelIssue},
     writeLevels |-> {LevelNote},
     forms |-> {"print", "line"},
     texts |-> {T_a_sp, T_b, T_c, T_b_c},
     history |-> FALSE,
     exitVals |-> {MaxExitVal},
     fails |-> {NoFail}]

NextFlag ==
    \/ SetThreshold(FlagScope)
    \/ ResetNewline(FlagScope)
    \/ Emit(FlagScope)
    \/ EmitExit(FlagScope)
    \/ Write(FlagScope)

SpecFlag == Init /\ [][NextFlag]_vars

\* The message writes among the writes of the last operation on a target
MsgWrites(outputTgt) == SelectSeq(TargetWrites(outputTgt), LAMBDA w : w.kind = "msg")

\* The flag of a target before and right after the message write of the
\* last operation
FlagBefore(outputTgt) ==
    IF outputTgt = ForScreen THEN last.nlScreen ELSE last.nlLogfile
FlagAfterMsg(outputTgt) ==
    IF outputTgt = ForScreen THEN last.afterMsgScreen ELSE last.afterMsgLogfile

\* The metadata leader and the prefix that start a line of the last operation
LineLeader(outputTgt) ==
    getFlagString(IF outputTgt = ForScreen THEN screenFlags[last.level]
                  ELSE logFlags[last.level],
                  last.level, Runtime.funcName, Runtime.file, Runtime.line, Runtime)
        \o prefix[last.level]

\* After a successful message write to a target its flag is true iff the
\* written text ended in a newline (and stays so when the emission is not
\* terminal); the first line of the written text is left without leader and
\* prefix iff the flag was false going in.
C3_Flag ==
    \A t \in Targets :
        (last.op \in {"emit", "write"} /\ MsgWrites(t) # <<>>
           /\ env.smartFlagsPrefix = "on") =>
            LET bytes == MsgWrites(t)[1].bytes
            IN  /\ FlagAfterMsg(t) = (bytes[Len(bytes)] = NL)
                /\ ~last.terminal => Newline(t) = (bytes[Len(bytes)] = NL)
                /\ Split(bytes, NL)[1] =
                       (IF FlagBefore(t) THEN LineLeader(t) ELSE <<>>)
                           \o Split(last.msg, NL)[1]

\* Note("a ") then Noteln("b") puts "Note: a b\n" on the screen sink, and a
\* Noteln("c") that follows puts "Note: c\n".
C3_Step ==
    /\ ( /\ last.op = "emit" /\ last.level = LevelNote
         /\ Bytes("stdout") = Str_Note \o T_a_sp
         /\ last'.op = "emit" /\ last'.level = LevelNote
         /\ last'.form = "line" /\ last'.msg = T_b \o <<NL>> )
       => Bytes("stdout") \o Flatten(written'["stdout"])
              = <<"N", "o", "t", "e", ":", " ", "a", " ", "b", NL>>
    /\ ( /\ last.op = "emit" /\ last.level = LevelNote
         /\ last.msg = T_b \o <<NL>> /\ Bytes("stdout") = T_b \o <<NL>>
         /\ last'.op = "emit" /\ last'.level = LevelNote
         /\ last'.form = "line" /\ last'.msg = T_c \o <<NL>> )
       => Flatten(written'["stdout"]) = <<"N", "o", "t", "e", ":", " ", "c", NL>>

\* C3: after any successful message write to a target, the target's
\* continuation flag is true iff the written text ended in a newline, and the
\* next emission leaves its first line unprefixed iff the flag was false going
\* in; Note("a ") then Noteln("b") yields "Note: a b\n" on the screen, and a
\* following Noteln("c") yields "Note: c\n".
C3_Continuation == []C3_Flag /\ [][C3_Step]_vars

\* Noteln("b") continuing the line of Note("a "): the flag was false going in,
\* the first line is written without prefix and the flag is true again.
C3_Witness ==
    /\ last.op = "emit" /\ last.level = LevelNote /\ last.form = "line"
    /\ last.msg = T_b \o <<NL>>
    /\ ~last.nlScreen
    /\ Bytes("stdout") = T_b \o <<NL>>
    /\ screenNewline

(***************************************************************************)
(* SpecLastByte: the continuation flags against the bytes the sinks got   *)
(***************************************************************************)
LastByteScope ==
    [thrLevels |-> {LevelTrace},
     thrTgts |-> {ForLogfile},
     stackCfgs |-> {StackTraceExitToLogfile, ForBoth + StackTraceAllIssues},
     writerLevels |-> {LevelAll},
     writerTgts |-> Targets,
     writers |-> Sinks,
     levels |-> {LevelNote, LevelIssue, LevelError},
     exitLevels |-> {LevelIssue, LevelError},
     forms |-> {"print", "line"},
     texts |-> {T_a},
     history |-> TRUE,
     exitVals |-> {0, MaxExitVal},
     fails |-> {NoFail},
     exitFails |-> {FALSE}]

NextLastByte ==
    \/ SetThreshold(LastByteScope)
    \/ SetStackTraceConfig(LastByteScope)
    \/ SetWriter(LastByteScope)
    \/ Emit(LastByteScope)
    \/ EmitExit(LastByteScope)
    \/ Fatal(LastByteScope)
    \/ Exit(LastByteScope)

SpecLastByte == Init /\ [][NextLastByte]_vars

\* All levels share one sink for a target, and every byte written for the
\* target so far went to that sink.
OneSink(outputTgt) ==
    /\ \A l1, l2 \in Levels : Hndl(l1, outputTgt) = Hndl(l2, outputTgt)
    /\ tgtSink[outputTgt] \in {"none", Hndl(LevelInfo, outputTgt)}

\* C4: with no ResetNewline call, one sink per target and no failed write,
\* in every state reached through emissions and Exit the continuation flag
\* of a target equals "the last byte written to the target's sink was a
\* newline" (true before anything is written), whatever the engine wrote
\* last: message, corrective newline or stack trace.
C4_FlagIsLastByte ==
    \A t \in Targets :
        (~resetCalled /\ ~panicked /\ OneSink(t)) => Newline(t) = tgtNl[t]

(***************************************************************************)
(* SpecPolicy: the stack trace policy under every configuration mask      *)
(***************************************************************************)
\* PKG_OUT_STACK_TRACE_CONFIG=Screen,all
Env_ScreenAll ==
    [EnvDefault EXCEPT
        !.stackTraceConfig = <<"S", "c", "r", "e", "e", "n", ",", "a", "l", "l">>]

\* Every mask of the two target bits and the three trigger bits
StackCfgs == 0 .. (2 * StackTraceAllIssues - 1)

PolicyScope ==
    [thrLevels |-> {LevelTrace},
     thrTgts |-> {ForLogfile},
     stackCfgs |-> StackCfgs,
     envs |-> {EnvDefault, Env_ScreenAll},
     levels |-> {LevelNote, LevelIssue},
     exitLevels |-> {LevelIssue, LevelError},
     forms |-> {"line"},
     texts |-> {T_a},
     history |-> FALSE,
     exitVals |-> {0, MaxExitVal},
     fails |-> {NoFail},
     exitFails |-> {FALSE}]

NextPolicy ==
    \/ SetThreshold(PolicyScope)
    \/ SetStackTraceConfig(PolicyScope)
    \/ Setenv(PolicyScope)
    \/ Emit(PolicyScope)
    \/ EmitExit(PolicyScope)
    \/ Fatal(PolicyScope)
    \/ Exit(PolicyScope)

SpecPolicy == Init /\ [][NextPolicy]_vars

\* The decision table of the stack trace policy for configuration mask cfg
PolicyTable(cfg, level, terminal, exitVal, outputTgt) ==
    /\ HasBit(cfg, outputTgt)
    /\ IF HasBit(cfg, StackTraceNonZeroErrorExit) THEN terminal /\ exitVal # 0
       ELSE IF HasBit(cfg, StackTraceErrorExit) THEN terminal /\ level >= LevelIssue
       ELSE IF HasBit(cfg, StackTraceAllIssues) THEN level >= LevelIssue
       ELSE FALSE

\* The last operation wrote a stack trace to a target
TraceWritten(outputTgt) ==
    \E i \in 1 .. Len(TargetWrites(outputTgt)) : TargetWrites(outputTgt)[i].kind = "trace"

\* The level of the last operation passes the threshold of a target
PassesThreshold(outputTgt) ==
    last.level >= (IF outputTgt = ForScreen THEN screenThreshold ELSE logThreshold)

\* C5: with no environment override, stackTraceWanted(terminal, exitVal,
\* target) on the channel of level L under configuration C is true exactly
\* when the target's bit is in C and: NonZeroExit set - terminal and exitVal
\* # 0; else ErrorExit set - terminal and L >= Issue; else AllIssues set -
\* L >= Issue; else false.  Under C = {logfile, NonZeroExit}: (true, 2,
\* logfile) is true, (true, 0, logfile) and (false, 2, logfile) are false,
\* every query for the screen is false.  The emissions and Exit write a
\* stack trace to a target exactly when the policy wants one and the level
\* passes the target's threshold.
C5_StackPolicy ==
    env.stackTraceConfig = <<>> =>
        /\ \A level \in Levels, terminal \in BOOLEAN, exitVal \in -1 .. MaxExitVal,
              t \in Targets :
                stackTraceWanted(level, terminal, exitVal, t)
                    <=> PolicyTable(stackTraceConfig, level, terminal, exitVal, t)
        /\ stackTraceConfig = StackTraceExitToLogfile =>
                /\ \A level \in Levels :
                      /\ stackTraceWanted(level, TRUE, 2, ForLogfile)
                      /\ ~stackTraceWanted(level, TRUE, 0, ForLogfile)
                      /\ ~stackTraceWanted(level, FALSE, 2, ForLogfile)
                /\ \A level \in Levels, terminal \in BOOLEAN, exitVal \in -1 .. MaxExitVal :
                      ~stackTraceWanted(level, terminal, exitVal, ForScreen)
        /\ last.op \in {"emit", "exit"} =>
                \A t \in Targets :
                    TraceWritten(t) <=>
                        /\ PolicyTable(stackTraceConfig, last.level, last.terminal,
                                       last.exitVal, t)
                        /\ PassesThreshold(t)

\* IssueExitln(0, "a") under {screen, ErrorExit}: a terminal emission with
\* exit value 0 gets its stack trace on the screen.
C5_Witness ==
    /\ env.stackTraceConfig = <<>>
    /\ stackTraceConfig = ForScreen + StackTraceErrorExit
    /\ last.op = "emit" /\ last.terminal /\ last.exitVal = 0
    /\ last.level = LevelIssue
    /\ TraceWritten(ForScreen) /\ ~TraceWritten(ForLogfile)

(***************************************************************************)
(* SpecTerm: the termination protocol, the hook and failing sinks         *)
(***************************************************************************)
\* PKG_OUT_NO_EXIT=1
Env_NoExit == [EnvDefault EXCEPT !.noExit = TRUE]

TermScope ==
    [thrLevels |-> {LevelTrace},
     thrTgts |-> {ForLogfile},
     stackCfgs |-> {StackTraceExitToLogfile, ForBoth + StackTraceNonZeroErrorExit},
     hooks |-> 0 .. MaxHook,
     errorExitVals |-> {defaultErrorExitVal, MaxExitVal + 1},
     envs |-> {EnvDefault, Env_NoExit},
     levels |-> {LevelNote},
     exitLevels |-> {LevelIssue},
     writeLevels |-> {LevelNote},
     forms |-> {"print"},
     texts |-> {T_hi},
     history |-> FALSE,
     exitVals |-> {0, MaxExitVal},
     fails |-> {NoFail, <<"msg", "none">>, <<"nl", "none">>,
                <<"none", "msg">>, <<"none", "trace">>},
     exitFails |-> BOOLEAN]

NextTerm ==
    \/ SetThreshold(TermScope)
    \/ SetStackTraceConfig(TermScope)
    \/ SetDeferFunc(TermScope)
    \/ SetErrorExitVal(TermScope)
    \/ Setenv(TermScope)
    \/ Emit(TermScope)
    \/ EmitExit(TermScope)
    \/ Fatal(TermScope)
    \/ Write(TermScope)
    \/ Exit(TermScope)

SpecTerm == Init /\ [][NextTerm]_vars

\* The exit code a terminal operation intends: the exit value of the call,
\* the configured error exit value for Fatal
IntendedExitCode ==
    IF last.op = "emit" /\ last.level = LevelFatal THEN errorExitVal ELSE last.exitVal

\* C6: a terminal operation whose writes succeed hands its intended exit
\* code to the hook and to the termination: exitVal for IssueExit, ErrorExit
\* and Exit, the configured error exit value for Fatal.
C6_ExitCodePassThrough ==
    (last.op \in {"emit", "exit"} /\ last.terminal /\ last.failed = {} /\ ~panicked) =>
        /\ deferFunc # 0 => hookCalls = << IntendedExitCode >>
        /\ ~env.noExit => (exited /\ exitCode = IntendedExitCode)

\* C7: with PKG_OUT_NO_EXIT=1 and a hook registered, a terminal operation
\* calls the hook exactly once, whether its writes succeed or fail, and the
\* process is not terminated.
C7_HookOnce ==
    (last.op \in {"emit", "exit"} /\ last.terminal /\ ~panicked
       /\ env.noExit /\ deferFunc # 0) =>
        (Len(hookCalls) = 1 /\ ~exited)

\* A failed write of the last operation on a target is named on os.Stderr
Diagnosed(outputTgt) == \E i \in 1 .. Len(diag) : diag[i].tgt = outputTgt

\* C8: when a write of a terminal emission fails, a diagnostic is written
\* to os.Stderr, the hook is called, and the process terminates with the
\* configured error exit value unless PKG_OUT_NO_EXIT=1.
C8_FailureStillTerminates ==
    (last.op = "emit" /\ last.terminal /\ last.failed # {} /\ ~panicked) =>
        /\ \A t \in last.failed : Diagnosed(t)
        /\ deferFunc # 0 => hookCalls = << errorExitVal >>
        /\ IF env.noExit THEN ~exited ELSE (exited /\ exitCode = errorExitVal)

\* ErrorExit-class emission with a failing logfile sink, a hook and a
\* configured error exit value: diagnostic, hook call, exit with that value.
C8_Witness ==
    /\ last.op = "emit" /\ last.terminal /\ last.failed = {ForLogfile}
    /\ last.exitVal = 0
    /\ errorExitVal = MaxExitVal + 1 /\ deferFunc # 0
    /\ Diagnosed(ForLogfile)
    /\ hookCalls = << errorExitVal >>
    /\ exited /\ exitCode = errorExitVal

\* C9: every failed sink write of an emission, of Write or of Exit is
\* reported: as the error value returned or as a diagnostic on os.Stderr.
C9_FailureReported ==
    \A t \in last.failed :
        \/ last.err # "none" /\ last.errTgt = t
        \/ Diagnosed(t)

\* C10: a non-terminal emission never calls the hook and never terminates
\* the process, also when one of its writes fails.
C10_NonTerminalStays ==
    (last.op = "emit" /\ ~last.terminal /\ ~panicked) =>
        (hookCalls = <<>> /\ ~exited)

(***************************************************************************)
(* SpecFormat: formatters, the debug scope and emissions that write        *)
(* nothing                                                                 *)
(***************************************************************************)
T_f == <<"f">>

\* PKG_OUT_DEBUG_SCOPE=z: no calling function of this run is in the scope
Env_ScopeZ == [EnvDefault EXCEPT !.debugScope = <<"z">>]

\* What a plugin's FormatMessage returns: text T_f and
\*   both targets named in both masks;
\*   the screen named in the suppression mask only;
\*   the screen named in both masks, the logfile in the applicability mask;
\*   the screen named in the applicability mask, native prefixing skipped.
Fmt_SuppressBoth ==
    [set |-> TRUE, resultStr |-> T_f, applyMask |-> ForBoth, noOutputMask |-> ForBoth,
     skipNativePfx |-> FALSE]
Fmt_ScreenUnapplied ==
    [set |-> TRUE, resultStr |-> T_f, applyMask |-> ForLogfile,
     noOutputMask |-> ForScreen, skipNativePfx |-> FALSE]
Fmt_SuppressScreen ==
    [set |-> TRUE, resultStr |-> T_f, applyMask |-> ForBoth, noOutputMask |-> ForScreen,
     skipNativePfx |-> FALSE]
Fmt_ScreenRaw ==
    [set |-> TRUE, resultStr |-> T_f, applyMask |-> ForScreen, noOutputMask |-> 0,
     skipNativePfx |-> TRUE]

FormatScope ==
    [thrLevels |-> {LevelTrace, LevelDiscard},
     thrTgts |-> {ForScreen, ForLogfile},
     hooks |-> {MaxHook},
     envs |-> {EnvDefault, Env_NoExit, Env_ScopeZ},
     formatterLevels |-> {LevelDebug, LevelFatal},
     formatters |-> {NoFormatter, Fmt_SuppressBoth, Fmt_ScreenUnapplied,
                     Fmt_SuppressScreen, Fmt_ScreenRaw},
     levels |-> {LevelDebug},
     forms |-> {"print"},
     texts |-> {T_a},
     history |-> FALSE,
     fails |-> {NoFail}]

NextFormat ==
    \/ SetThreshold(FormatScope)
    \/ SetDeferFunc(FormatScope)
    \/ Setenv(FormatScope)
    \/ SetFormatter(FormatScope)
    \/ Emit(FormatScope)
    \/ Fatal(FormatScope)

SpecFormat == Init /\ [][NextFormat]_vars

\* The last operation wrote nothing to any sink
NothingWritten == \A w \in Sinks : written[w] = <<>>

\* C11: every Fatal emission is terminal in every configuration: the hook,
\* if one is registered, is called once with the error exit value and the
\* process terminates (PKG_OUT_NO_EXIT=1, the test mode, keeps it running),
\* also under thresholds of Discard, with a formatter that suppresses both
\* targets and with the debug scope set, when not a byte is written.
C11_FatalAlwaysTerminal ==
    (last.op = "emit" /\ last.level = LevelFatal /\ ~panicked) =>
        /\ last.terminal
        /\ deferFunc # 0 => hookCalls = << errorExitVal >>
        /\ exited = ~env.noExit
        /\ exited => exitCode = errorExitVal

\* Fatal("a") with both thresholds at Discard and a hook: nothing is
\* written, the hook is called and the process exits.
C11_Witness ==
    /\ last.op = "emit" /\ last.level = LevelFatal
    /\ screenThreshold = LevelDiscard /\ logThreshold = LevelDiscard
    /\ NothingWritten
    /\ deferFunc # 0 /\ hookCalls = << errorExitVal >>
    /\ exited

\* The level of the last operation passes the gate of a target: its
\* threshold, and for the Debug and Trace channels the debug scope
PassesGate(outputTgt) ==
    /\ PassesThreshold(outputTgt) /\ last.level # LevelDiscard
    /\ ~debugScopeSuppress(last.level, env.debugScope)

\* C20: with a formatter registered on the channel, a target named in the
\* suppression mask the formatter returns receives no bytes from the
\* emission, whether or not the applicability mask names that target; a
\* target the suppression mask does not name is written as usual.
C20_SuppressionMask ==
    (last.op = "emit" /\ formatter[last.level].set /\ ~panicked) =>
        \A t \in Targets :
            IF HasBit(formatter[last.level].noOutputMask, t)
            THEN TargetWrites(t) = <<>>
            ELSE PassesGate(t) <=> MsgWrites(t) # <<>>

(***************************************************************************)
(* SpecLastByte: the corrective newline of a terminal emission            *)
(***************************************************************************)
\* The corrective newline writes among the writes of the last operation on
\* a target
NlWrites(outputTgt) == SelectSeq(TargetWrites(outputTgt), LAMBDA w : w.kind = "nl")

\* C19: a terminal emission whose message was written to a target and whose
\* text does not end in a newline writes exactly one newline byte to that
\* target, right after the message and before any stack trace, and leaves
\* the target's continuation flag true; a non-terminal emission, a message
\* that ends in a newline and a target that did not get the message get no
\* corrective newline.
C19_CorrectiveNewline ==
    (last.op = "emit" /\ ~panicked) =>
        \A t \in Targets :
            IF last.terminal /\ MsgWrites(t) # <<>> /\ ~EndsInNewline(last.msg)
            THEN /\ Len(TargetWrites(t)) >= 2
                 /\ TargetWrites(t)[1].kind = "msg"
                 /\ TargetWrites(t)[2] = Wr("nl", <<NL>>)
                 /\ Len(NlWrites(t)) = 1
                 /\ \A i \in 3 .. Len(TargetWrites(t)) : TargetWrites(t)[i].kind = "trace"
                 /\ Newline(t)
            ELSE NlWrites(t) = <<>>

\* IssueExit(2, "a") with the logfile threshold at Trace: the logfile gets
\* the message, the newline and the stack trace, in this order; the screen
\* gets the message and the newline.
C19_Witness ==
    /\ last.op = "emit" /\ last.terminal /\ last.msg = T_a
    /\ Len(TargetWrites(ForLogfile)) = 3
    /\ TargetWrites(ForLogfile)[2] = Wr("nl", <<NL>>)
    /\ TargetWrites(ForLogfile)[3].kind = "trace"
    /\ Len(TargetWrites(ForScreen)) = 2
    /\ TargetWrites(ForScreen)[2] = Wr("nl", <<NL>>)
    /\ screenNewline /\ logfileNewline

(***************************************************************************)
(* Spec: the thresholds stay in range                                     *)
(***************************************************************************)
\* The valid level nearest to an integer
NearestLevel(l) ==
    IF l < LevelTrace THEN LevelTrace
    ELSE IF l >= LevelDiscard THEN LevelDiscard
    ELSE l

\* What a SetThreshold or Discard step stores: the nearest valid level of
\* its argument in the thresholds of the targets it names, and nothing in
\* the threshold of a target it does not name.
C16_Step ==
    \A t \in Targets :
        LET before == IF t = ForScreen THEN screenThreshold ELSE logThreshold
            after == IF t = ForScreen THEN screenThreshold' ELSE logThreshold'
        IN  /\ last'.op = "SetThreshold" =>
                after = IF HasBit(last'.tgt, t) THEN NearestLevel(last'.arg) ELSE before
            /\ last'.op = "Discard" =>
                after = IF HasBit(last'.tgt, t) THEN LevelDiscard ELSE before

\* C16: after any sequence of SetThreshold and Discard calls with arbitrary
\* integer levels both thresholds lie in Trace..Discard; a level below Trace
\* is stored as Trace, a level at or above Discard (the All selector
\* included) as Discard, and the threshold of a target the call does not
\* name is left unchanged.
C16_ThresholdsClamped ==
    /\ [](screenThreshold \in LevelTrace .. LevelDiscard
          /\ logThreshold \in LevelTrace .. LevelDiscard)
    /\ [][C16_Step]_vars

\* SetThreshold(LevelAll, ForLogfile), then SetThreshold(LevelTrace - 1,
\* ForScreen): the screen threshold is Trace, the logfile's still Discard.
C16_Witness ==
    /\ last.op = "SetThreshold" /\ last.arg < LevelTrace /\ last.tgt = ForScreen
    /\ screenThreshold = LevelTrace
    /\ logThreshold = LevelDiscard

(***************************************************************************)
(* SpecQuery: the flag and threshold queries and SetFlags                  *)
(***************************************************************************)
\* A target argument without the screen and the logfile bit
NoTarget == 0

QueryScope ==
    [thrLevels |-> {LevelTrace, LevelDiscard},
     thrTgts |-> {ForScreen},
     hooks |-> {MaxHook},
     envs |-> {EnvDefault, Env_NoExit},
     flagLevels |-> {LevelTrace - OutOfRange, LevelTrace, LevelDiscard,
                     LevelAll + OutOfRange},
     flagVals |-> {0, Llevel},
     flagTgts |-> {ForScreen, ForLogfile},
     queryTgts |-> {NoTarget, ForScreen, ForLogfile, StackTraceNonZeroErrorExit},
     history |-> FALSE,
     fails |-> {NoFail}]

NextQuery ==
    \/ SetThreshold(QueryScope)
    \/ SetDeferFunc(QueryScope)
    \/ Setenv(QueryScope)
    \/ SetFlags(QueryScope)
    \/ Flags(QueryScope)
    \/ Threshold(QueryScope)

SpecQuery == Init /\ [][NextQuery]_vars

\* C17: a level outside Trace..Discard given to Flags or SetFlags, the All
\* selector apart, acts as the nearest valid level: after SetFlags(l, f, T)
\* the channel of the nearest level of l has the flags f for the targets of
\* T, and Flags(l, T) returns the flags of the channel of the nearest level
\* of l (a level below Trace acts as Trace).
C17_FlagLevelClamped ==
    /\ (last.op = "SetFlags" /\ last.arg # LevelAll
            /\ NearestLevel(last.arg) \in Levels) =>
           \A t \in Targets :
               HasBit(last.tgt, t) => ChanFlags(NearestLevel(last.arg), t) = last.val
    /\ (last.op = "Flags" /\ NearestLevel(last.arg) \in Levels) =>
           last.val = ChanFlags(NearestLevel(last.arg),
                                IF HasBit(last.tgt, ForScreen) THEN ForScreen
                                ELSE ForLogfile)

\* C15: Threshold and Flags with a target that has neither the screen nor
\* the logfile bit end the program through the Fatal path, once: the call
\* never waits for a lock its caller holds, never returns a value, and the
\* Fatal emission it makes is terminal, calls the hook once and exits
\* (unless PKG_OUT_NO_EXIT=1).
C15_InvalidTargetFatal ==
    /\ ~blocked
    /\ last.op \in {"Threshold", "Flags"} => ValidTarget(last.tgt)
    /\ (last.op = "emit" /\ last.msg \in {Msg_Threshold \o <<NL>>, Msg_Flags \o <<NL>>}) =>
           /\ last.level = LevelFatal /\ last.terminal
           /\ deferFunc # 0 => hookCalls = << errorExitVal >>
           /\ exited = ~env.noExit

(***************************************************************************)
(* SpecEnv: malformed values of the environment variables                  *)
(***************************************************************************)
\* PKG_OUT_STACK_TRACE_CONFIG=both: one setting where two are expected
Env_StackOneSetting ==
    [EnvDefault EXCEPT !.stackTraceConfig = <<"b", "o", "t", "h">>]

\* PKG_OUT_STACK_TRACE_CONFIG=x,y: two settings, none of the vocabulary
Env_StackUnknown == [EnvDefault EXCEPT !.stackTraceConfig = <<"x", ",", "y">>]

\* PKG_OUT_SCREEN_FLAGS=x and PKG_OUT_LOGFILE_FLAGS=x: no known flag name
Env_FlagsUnknown ==
    [EnvDefault EXCEPT !.screenFlags = <<"x">>, !.logfileFlags = <<"x">>]

\* PKG_OUT_SCREEN_FLAGS=level and PKG_OUT_LOGFILE_FLAGS=level
Env_FlagsLevel ==
    [EnvDefault EXCEPT !.screenFlags = FlagTok_level, !.logfileFlags = FlagTok_level]

EnvScope ==
    [thrLevels |-> {LevelTrace},
     thrTgts |-> {ForLogfile},
     stackCfgs |-> {StackTraceExitToLogfile, ForBoth + StackTraceAllIssues},
     envs |-> {EnvDefault, Env_StackOneSetting, Env_StackUnknown, Env_ScreenAll,
               Env_FlagsUnknown, Env_FlagsLevel},
     levels |-> {LevelDebug, LevelNote, LevelIssue},
     exitLevels |-> {LevelIssue},
     forms |-> {"line"},
     texts |-> {T_a, T_b},
     history |-> FALSE,
     exitVals |-> {0, MaxExitVal},
     fails |-> {NoFail}]

NextEnv ==
    \/ SetThreshold(EnvScope)
    \/ SetStackTraceConfig(EnvScope)
    \/ Setenv(EnvScope)
    \/ Emit(EnvScope)
    \/ EmitExit(EnvScope)

SpecEnv == Init /\ [][NextEnv]_vars

\* The vocabulary of PKG_OUT_STACK_TRACE_CONFIG and of the flags variables
StackVocabulary ==
    {TokBoth, TokScreen, TokLogfile, TokNonZero, TokErrorExit, TokAllIssues, TokAll,
     TokOff}
FlagVocabulary ==
    {FlagTok_debug, FlagTok_all, FlagTok_longall, FlagTok_pid, FlagTok_level,
     FlagTok_date, FlagTok_time, FlagTok_micro, FlagTok_microseconds, FlagTok_file,
     FlagTok_shortfile, FlagTok_longfile, FlagTok_func, FlagTok_shortfunc,
     FlagTok_longfunc, FlagTok_off}

\* A stack trace override that is set and malformed: not two settings, or
\* a setting outside the vocabulary
MalformedStackOverride(val) ==
    /\ val # <<>>
    /\ \/ Len(Split(val, ",")) # 2
       \/ \E i \in 1 .. Len(Split(val, ",")) :
              ToLower(Split(val, ",")[i]) \notin StackVocabulary

\* A flags override that is set and has no setting of the vocabulary
MalformedFlagsOverride(str) ==
    /\ str # <<>>
    /\ \A i \in 1 .. Len(Split(str, ",")) : Split(str, ",")[i] \notin FlagVocabulary

\* C18: a malformed override is ignored.  Under a stack trace override that
\* has not two settings, or has a setting outside the vocabulary, an
\* emission writes a stack trace to a target exactly when the programmatic
\* configuration (SetStackTraceConfig) wants one; under a flags override
\* without a recognised setting the message is led by the metadata of the
\* channel's programmatic flags.
C18_MalformedIgnored ==
    last.op = "emit" =>
        \A t \in Targets :
            /\ MalformedStackOverride(env.stackTraceConfig) =>
                   (TraceWritten(t) <=>
                       /\ StackDecision(stackTraceConfig, last.level, last.terminal,
                                        last.exitVal, t)
                       /\ PassesThreshold(t))
            /\ (MalformedFlagsOverride(IF t = ForScreen THEN env.screenFlags
                                       ELSE env.logfileFlags)
                    /\ MsgWrites(t) # <<>>) =>
                   MsgWrites(t)[1].bytes = LineLeader(t) \o last.msg

(***************************************************************************)
(* SpecConc: emissions and reconfiguration by concurrent callers           *)
(*                                                                         *)
(* A caller's emission is a sequence of steps, one for each section of    *)
(* stringOutput, doPrefixing, insertFlagMetadata and writeOutput that      *)
(* holds mutex or the channel's o.mu; between two steps of a caller any    *)
(* other caller may take steps.  Adjacent sections are taken as one step   *)
(* where noted: every behaviour of these steps is one of the code.         *)
(***************************************************************************)
\* The emissions started in all
MaxCalls == 2

\* The configurations of its channel an emission sees at most
MaxSeen == 3

\* A second prefix for a channel
Str_Alt == <<"!", " ">>

\* The configuration of the channel of a level: the fields of LvlOutput
\* that SetPrefix, SetFlags and SetWriter store
ChanCfg(level) ==
    [prefix |-> prefix[level],
     screenFlags |-> screenFlags[level], logFlags |-> logFlags[level],
     screenHndl |-> screenHndl[level], logfileHndl |-> logfileHndl[level]]

\* stringOutput 2069, 2088: the first target from a target on whose gate
\* the emission passes, with the thresholds and the formatter read at its
\* start; 0 when there is none
NextTarget(l, from) ==
    LET gate(t) ==
            /\ l.level >= (IF t = ForScreen THEN l.safeScreenThreshold
                           ELSE l.safeLogThreshold)
            /\ l.level # LevelDiscard
            /\ ~HasBit(FormatWith(l.formatter, l.msg, t).noOutputMask, t)
    IN  IF from <= ForScreen /\ gate(ForScreen) THEN ForScreen
        ELSE IF from <= ForLogfile /\ gate(ForLogfile) THEN ForLogfile
        ELSE 0

\* Where an emission goes on from a target on: to the doPrefixing call of
\* the next active target, to the dying block (2106) or to its return
Turn(l, from) ==
    Bind(NextTarget(l, from), LAMBDA t :
        IF t # 0
        THEN [pc |-> "flag",
              loc |-> [l EXCEPT !.outputTgt = t, !.part = "msg", !.mark = -1,
                                !.used = Idle.used]]
        ELSE IF l.dying THEN [pc |-> "dying", loc |-> [l EXCEPT !.outputTgt = 0]]
        ELSE [pc |-> "idle", loc |-> Idle])

\* A caller moves on to position r.pc with the local values r.loc
Goto(g, r) ==
    /\ pc' = [pc EXCEPT ![g] = r.pc]
    /\ loc' = [loc EXCEPT ![g] = r.loc]

\* A caller enters an emission: stringOutput 1994-2019 reads the channel's
\* level and formatter, the two thresholds and, for a level from Issue on,
\* whether each target wants a stack trace (taken as one step).
Start(sc) ==
    \E g \in sc.procs, e \in sc.emissions :
        /\ Alive
        /\ pc[g] = "idle"
        /\ calls < MaxCalls
        /\ calls' = calls + 1
        /\ Goto(g, Turn([Idle EXCEPT
                  !.id = calls + 1, !.level = e.level, !.msg = e.msg,
                  !.dying = e.dying, !.exitVal = e.exitVal,
                  !.formatter = formatter[e.level],
                  !.safeScreenThreshold = screenThreshold,
                  !.safeLogThreshold = logThreshold,
                  !.screenStackTrace =
                      IF e.level >= LevelIssue
                         /\ stackTraceWanted(e.level, e.dying, e.exitVal, ForScreen)
                      THEN getStackTrace ELSE <<>>,
                  !.logfileStackTrace =
                      IF e.level >= LevelIssue
                         /\ stackTraceWanted(e.level, e.dying, e.exitVal, ForLogfile)
                      THEN getStackTrace ELSE <<>>,
                  !.seen = {ChanCfg(e.level)}], ForScreen))
        /\ UNCHANGED << config, flags2, obs, sinkLog >>

\* doPrefixing 1854-1857: the continuation flags are read under mutex.
\* mark is the number of writes made so far when the flag is read for the
\* message.
ReadFlag ==
    \E g \in Procs :
        /\ Alive
        /\ pc[g] = "flag"
        /\ Goto(g, [pc |-> "prefix",
                    loc |-> [loc[g] EXCEPT
                        !.onNewline = Newline(loc[g].outputTgt),
                        !.mark = IF loc[g].part = "msg" THEN Len(sinkLog) ELSE @]])
        /\ UNCHANGED << config, flags2, obs, calls, sinkLog >>

\* doPrefixing 1872-1874: the channel's prefix is read under o.mu
ReadPrefix ==
    \E g \in Procs :
        /\ Alive
        /\ pc[g] = "prefix"
        /\ Goto(g, [pc |-> "flags",
                    loc |-> [loc[g] EXCEPT
                        !.prefix = prefix[loc[g].level],
                        !.used.prefix = @ \cup {prefix[loc[g].level]}]])
        /\ UNCHANGED << config, flags2, obs, calls, sinkLog >>

\* insertFlagMetadata 1697-1705: the channel's flags are read under o.mu,
\* and the string is composed from the flag, the prefix and the flags read
\* (doPrefixing 1863-1889).  The message is followed by the stack trace, if
\* the target has one (stringOutput 2076-2078, 2095-2097).
Compose ==
    \E g \in Procs :
        /\ Alive
        /\ pc[g] = "flags"
        /\ \E l \in {loc[g]} :
           \E fm \in {FormatWith(l.formatter, l.msg, l.outputTgt)} :
           \E trace \in {IF l.outputTgt = ForScreen THEN l.screenStackTrace
                         ELSE l.logfileStackTrace} :
           \E r \in {doPrefixingWith(l.level, IF l.part = "msg" THEN fm.str ELSE trace,
                                     l.outputTgt, SmartInsert, fm.skipNativePfx,
                                     l.onNewline, l.prefix,
                                     ChanFlags(l.level, l.outputTgt))} :
           \E l2 \in {[l EXCEPT !.used.flags = @ \cup {ChanFlags(l.level, l.outputTgt)}]} :
               Goto(g, IF l.part = "trace"
                       THEN [pc |-> "hndl", loc |-> [l2 EXCEPT !.pfxStackTrace = r.s]]
                       ELSE IF r.suppressOutput THEN Turn(l2, l.outputTgt + 1)
                       ELSE IF trace # <<>>
                       THEN [pc |-> "flag",
                             loc |-> [l2 EXCEPT !.pfxStr = r.s, !.part = "trace"]]
                       ELSE [pc |-> "hndl",
                             loc |-> [l2 EXCEPT !.pfxStr = r.s, !.pfxStackTrace = <<>>]])
        /\ UNCHANGED << config, flags2, obs, calls, sinkLog >>

\* writeOutput 1907-1921: the channel's handle for the target is read under
\* o.mu (the sections of 1907-1921 taken as one step)
ReadHndl ==
    \E g \in Procs :
        /\ Alive
        /\ pc[g] = "hndl"
        /\ Goto(g, [pc |-> "write",
                    loc |-> [loc[g] EXCEPT
                        !.hndl = Hndl(loc[g].level, loc[g].outputTgt),
                        !.used.hndl = @ \cup {Hndl(loc[g].level, loc[g].outputTgt)}]])
        /\ UNCHANGED << config, flags2, obs, calls, sinkLog >>

\* A Write of a caller on the handle it read
SinkWrite(l, kind, bytes) ==
    [id |-> l.id, tgt |-> l.outputTgt, sink |-> l.hndl, kind |-> kind, bytes |-> bytes]

\* writeOutput 1926-1928: the message is written under mutex
WriteMsg ==
    \E g \in Procs :
        /\ Alive
        /\ pc[g] = "write"
        /\ sinkLog' = Append(sinkLog, SinkWrite(loc[g], "msg", loc[g].pfxStr))
        /\ Goto(g, [pc |-> "newline", loc |-> loc[g]])
        /\ UNCHANGED << config, flags2, obs, calls >>

\* writeOutput 1936-1955: under mutex the flag is set from the last byte of
\* the message, and a dying emission writes the corrective newline
SetFlag ==
    \E g \in Procs :
        /\ Alive
        /\ pc[g] = "newline"
        /\ \E corrective \in {needsNewline(loc[g].dying, EndsInNewline(loc[g].pfxStr))} :
           \E nl \in {corrective \/ EndsInNewline(loc[g].pfxStr)} :
            /\ sinkLog' = IF corrective
                          THEN Append(sinkLog, SinkWrite(loc[g], "nl", <<NL>>))
                          ELSE sinkLog
            /\ screenNewline' = IF loc[g].outputTgt = ForScreen THEN nl ELSE screenNewline
            /\ logfileNewline' = IF loc[g].outputTgt = ForScreen THEN logfileNewline ELSE nl
        /\ Goto(g, [pc |-> "trace", loc |-> [loc[g] EXCEPT !.mark = -1]])
        /\ UNCHANGED << config, obs, calls >>

\* writeOutput 1957-1968: stackTraceWanted reads the configuration under
\* mutex and the stack trace is written under mutex (taken as one step);
\* the emission then turns to the next target.
WriteTrace ==
    \E g \in Procs :
        /\ Alive
        /\ pc[g] = "trace"
        /\ sinkLog' = IF stackTraceWanted(loc[g].level, loc[g].dying, loc[g].exitVal,
                                          loc[g].outputTgt)
                      THEN Append(sinkLog, SinkWrite(loc[g], "trace", loc[g].pfxStackTrace))
                      ELSE sinkLog
        /\ Goto(g, Turn(loc[g], loc[g].outputTgt + 1))
        /\ UNCHANGED << config, flags2, obs, calls >>

\* stringOutput 2106-2114: the dying block
Die ==
    \E g \in Procs :
        /\ Alive
        /\ pc[g] = "dying"
        /\ hookCalls' = IF deferFunc # 0 THEN << errorExitVal >> ELSE <<>>
        /\ hookRun' = Invoked(hookCalls')
        /\ blocked' = (deferFunc # 0 /\ hookBlocks(deferFunc))
        /\ exited' = (~env.noExit /\ ~blocked')
        /\ exitCode' = IF exited' THEN errorExitVal ELSE exitCode
        /\ Goto(g, [pc |-> "idle", loc |-> Idle])
        /\ UNCHANGED << config, flags2, written, tgtNl, tgtSink, resetCalled, diag,
                        panicked, last, calls, sinkLog >>

\* The callers that are in an emission have seen one more configuration of
\* their channel
Observe ==
    /\ \A g \in Procs : pc[g] # "idle" => Cardinality(loc[g].seen) < MaxSeen
    /\ loc' = [g \in Procs |->
           IF pc[g] = "idle" THEN loc[g]
           ELSE [loc[g] EXCEPT !.seen = @ \cup {ChanCfg(lv)' : lv \in {loc[g].level}}]]
    /\ UNCHANGED << flags2, obs, pc, calls, sinkLog >>

\* SetPrefix, SetWriter and SetFlags called by a further caller
ConcSetPrefix(sc) ==
    \E level \in sc.prefixLevels, pfx \in sc.prefixes :
        Alive /\ SetPrefixStore(level, pfx) /\ Observe

ConcSetWriter(sc) ==
    \E level \in sc.writerLevels, w \in sc.writers, outputTgt \in sc.writerTgts :
        Alive /\ SetWriterStore(level, w, outputTgt) /\ Observe

ConcSetFlags(sc) ==
    \E level \in sc.flagLevels, flags \in sc.flagVals, outputTgt \in sc.flagTgts :
        Alive /\ SetFlagsStore(level, flags, outputTgt) /\ Observe

\* Issue("a"), Issueln("a") and IssueExit(MaxExitVal, "a")
Emissions ==
    {[level |-> LevelIssue, msg |-> T_a, dying |-> FALSE, exitVal |-> 0],
     [level |-> LevelIssue, msg |-> T_a \o <<NL>>, dying |-> FALSE, exitVal |-> 0],
     [level |-> LevelIssue, msg |-> T_a, dying |-> TRUE, exitVal |-> MaxExitVal]}

\* Two callers emit; the channels are not reconfigured
ConcScope ==
    [procs |-> Procs,
     emissions |-> Emissions,
     stackCfgs |-> {ForScreen + StackTraceNonZeroErrorExit}]

NextConc ==
    \/ SetStackTraceConfig(ConcScope)
    \/ Start(ConcScope)
    \/ ReadFlag
    \/ ReadPrefix
    \/ Compose
    \/ ReadHndl
    \/ WriteMsg
    \/ SetFlag
    \/ WriteTrace
    \/ Die

SpecConc == Init /\ [][NextConc]_vars

\* The writes made to a target so far, and the emissions all returned
WritesTo(outputTgt) == SelectSeq(sinkLog, LAMBDA w : w.tgt = outputTgt)
Quiescent == \A g \in Procs : pc[g] = "idle"

\* A caller is between the read of the flag for its message and its update
\* of the flag
InFlagSection(g) == pc[g] # "idle" /\ loc[g].mark >= 0

\* C12: the flag read, the composition, the sink write and the flag update
\* of an emission are one critical section.  While a caller is between its
\* flag read and its flag update nobody else has written to the target and
\* the flag still has the value the caller read; and when all emissions
\* have returned (no stack trace written) the flag of a target says whether
\* the last byte written to it is a newline.
C12_FlagCriticalSection ==
    /\ \A g \in Procs :
           InFlagSection(g) =>
               /\ loc[g].onNewline = Newline(loc[g].outputTgt)
               /\ \A i \in (loc[g].mark + 1) .. Len(sinkLog) :
                      sinkLog[i].tgt = loc[g].outputTgt => sinkLog[i].id = loc[g].id
    /\ \A t \in Targets :
           (Quiescent /\ WritesTo(t) # <<>>
                /\ \A i \in 1 .. Len(WritesTo(t)) : WritesTo(t)[i].kind # "trace") =>
               Newline(t) = (Flatten(WritesTo(t))[Len(Flatten(WritesTo(t)))] = NL)

\* C13: the writes of one emission to a target (message, corrective
\* newline, stack trace) are contiguous among the writes to the target, and
\* the emissions' writes come in the order in which the emissions first
\* took the lock.
C13_ContiguousWrites ==
    \A t \in Targets :
        /\ \A i, j, k \in 1 .. Len(WritesTo(t)) :
               (i < j /\ j < k /\ WritesTo(t)[i].id = WritesTo(t)[k].id) =>
                   WritesTo(t)[j].id = WritesTo(t)[i].id
        /\ \A i, j \in 1 .. Len(WritesTo(t)) :
               i < j => WritesTo(t)[i].id <= WritesTo(t)[j].id

(***************************************************************************)
(* SpecReconf: one caller emits while the channel is reconfigured          *)
(***************************************************************************)
ReconfScope ==
    [procs |-> {"p1"},
     emissions |-> Emissions,
     stackCfgs |-> {ForScreen + StackTraceNonZeroErrorExit},
     prefixLevels |-> {LevelIssue},
     prefixes |-> {Str_Issue, Str_Alt},
     writerLevels |-> {LevelIssue},
     writers |-> ScreenSinks,
     writerTgts |-> {ForScreen},
     flagLevels |-> {LevelIssue},
     flagVals |-> {0, Llevel},
     flagTgts |-> {ForScreen}]

NextReconf ==
    \/ SetStackTraceConfig(ReconfScope)
    \/ ConcSetPrefix(ReconfScope)
    \/ ConcSetWriter(ReconfScope)
    \/ ConcSetFlags(ReconfScope)
    \/ Start(ReconfScope)
    \/ ReadFlag
    \/ ReadPrefix
    \/ Compose
    \/ ReadHndl
    \/ WriteMsg
    \/ SetFlag
    \/ WriteTrace
    \/ Die

SpecReconf == Init /\ [][NextReconf]_vars

\* A configuration agrees with the values an emission used for a target
Fits(used, c, outputTgt) ==
    /\ used.prefix \subseteq {c.prefix}
    /\ used.flags \subseteq {IF outputTgt = ForScreen THEN c.screenFlags ELSE c.logFlags}
    /\ used.hndl \subseteq {IF outputTgt = ForScreen THEN c.screenHndl ELSE c.logfileHndl}

\* C14: the prefix, the flags and the handle an emission has used for a
\* target, for its message and for its stack trace, are those of one
\* configuration its channel had during the emission.
C14_ConsistentSnapshot ==
    \A g \in Procs :
        (pc[g] # "idle" /\ loc[g].outputTgt # 0) =>
            \E c \in loc[g].seen : Fits(loc[g].used, c, loc[g].outputTgt)

(***************************************************************************)
(* InsertPrefix called directly with arguments from bounded sets           *)
(***************************************************************************)
MaxTextLen == 3

\* The strings of at most n characters over an alphabet
TextsUpTo(alphabet, n) == UNION {[1 .. k -> alphabet] : k \in 0 .. n}

P_OneColon == <<"E", ":", " ">>
P_NoColon == <<"x">>
P_TwoColons == <<":", "x", ":">>
P_Newline == <<"p", NL>>
ErrCode42 == 42
NegativeErrCode == -1

PrefixScope ==
    [texts |-> TextsUpTo({"a", NL}, MaxTextLen),
     prefixes |-> {<<>>, P_OneColon, P_NoColon, P_TwoColons, P_Newline},
     ctrls |-> 0 .. (AlwaysInsert + SmartInsert + BlankInsert + SkipFirstLine),
     errCodes |-> {0, ErrCode42, defaultErrCode, NegativeErrCode}]

\* The arguments of a call of InsertPrefix that is about to be made
InitPrefix ==
    /\ InitButLast
    /\ \E s \in PrefixScope.texts, pfx \in PrefixScope.prefixes,
          ctrl \in PrefixScope.ctrls, errCode \in PrefixScope.errCodes :
           last = [s |-> s, prefix |-> pfx, ctrl |-> ctrl, errCode |-> errCode,
                   result |-> <<>>] @@ Quiet("args")

\* The call of InsertPrefix: the string returned
CallInsertPrefix ==
    /\ Alive
    /\ last.op = "args"
    /\ CallObs([last EXCEPT !.op = "InsertPrefix",
                            !.result = InsertPrefix(last.s, last.prefix, last.ctrl,
                                                    last.errCode)])
    /\ UNCHANGED << config, flags2, resetCalled >>

NextPrefix == CallInsertPrefix

SpecPrefix == InitPrefix /\ [][NextPrefix]_vars

Prefixed == last.op = "InsertPrefix"

\* p is a leading part of t
IsLead(p, t) == Len(p) <= Len(t) /\ SubSeq(t, 1, Len(p)) = p

\* The number of occurrences of a character in a string
Count(s, ch) == Cardinality({i \in 1 .. Len(s) : s[i] = ch})

EndsWithNL(s) == Len(s) > 0 /\ s[Len(s)] = NL

\* The prefix with " #<code>:" in place of its colon when a code is supplied
\* and the prefix has exactly one colon, the prefix itself otherwise
PrefixWithCode(pfx, errCode, supplied) ==
    IF supplied /\ Count(pfx, ":") = 1
    THEN LET k == CHOOSE i \in 1 .. Len(pfx) : pfx[i] = ":"
         IN  SubSeq(pfx, 1, k - 1) \o <<" ", "#">> \o Decimal(errCode)
                 \o SubSeq(pfx, k, Len(pfx))
    ELSE pfx

\* The prefix a call uses: a code is supplied when it is positive and not
\* the 'no code' value
UsedPrefix == PrefixWithCode(last.prefix, last.errCode,
                             last.errCode > 0 /\ last.errCode # defaultErrCode)

\* C22: with an empty prefix InsertPrefix returns s unchanged, for every s,
\* every mode (AlwaysInsert included) and every error code.
C22_EmptyPrefixIdentity ==
    (Prefixed /\ last.prefix = <<>>) => last.result = last.s

C22_Witness ==
    /\ Prefixed /\ last.prefix = <<>>
    /\ HasBit(last.ctrl, AlwaysInsert) /\ last.errCode = ErrCode42
    /\ last.s = <<"a", NL, "a">> /\ last.result = last.s

DefaultMode ==
    /\ Prefixed /\ last.prefix # <<>>
    /\ last.ctrl = 0 /\ last.errCode = 0
    /\ Count(last.s, NL) = 0

\* C23 as stated: for every s without a newline, the empty string included,
\* and every non-empty prefix, InsertPrefix in default mode (no mode bit, no
\* error code) returns prefix + s.
C23_DefaultModeConcat ==
    DefaultMode => last.result = last.prefix \o last.s

\* C23 as amended: for every non-empty s without a newline and every
\* non-empty prefix, InsertPrefix in default mode returns prefix + s; for
\* the empty string it returns the empty string.
C23_DefaultModeConcatNonEmpty ==
    DefaultMode =>
        last.result = IF last.s = <<>> THEN <<>> ELSE last.prefix \o last.s

C23_Witness ==
    /\ DefaultMode /\ last.prefix = P_OneColon /\ last.s = <<"a", "a">>
    /\ last.result = <<"E", ":", " ", "a", "a">>

\* t without its leading p, t itself when p does not lead it
StripLead(p, t) == IF IsLead(p, t) THEN SubSeq(t, Len(p) + 1, Len(t)) ELSE t

\* C24: for a prefix without a newline the result has as many newlines as s
\* and ends in a newline exactly when s does; the final empty segment is
\* not prefixed; under AlwaysInsert, removing the leading prefix from every
\* prefixed line gives s back.
C24_LineStructure ==
    (Prefixed /\ Count(last.prefix, NL) = 0) =>
        LET sl == Split(last.s, NL)
            rl == Split(last.result, NL)
        IN  /\ Count(last.result, NL) = Count(last.s, NL)
            /\ EndsWithNL(last.result) <=> EndsWithNL(last.s)
            /\ sl[Len(sl)] = <<>> => rl[Len(rl)] = <<>>
            /\ (HasBit(last.ctrl, AlwaysInsert) /\ last.prefix # <<>>) =>
                   /\ \A i \in 1 .. Len(rl) :
                          (i < Len(rl) \/ rl[i] # <<>>) => IsLead(UsedPrefix, rl[i])
                   /\ Join([i \in 1 .. Len(rl) |-> StripLead(UsedPrefix, rl[i])], NL)
                          = last.s

C24_Witness ==
    /\ Prefixed /\ last.prefix = P_NoColon /\ last.ctrl = AlwaysInsert + SkipFirstLine
    /\ last.s = <<"a", NL, NL>>
    /\ last.result = <<"x", "a", NL, "x", NL>>

\* The line the modes ask for in place of line i of n
ModeLine(i, n, line, ctrl, pfx) ==
    IF i = n /\ line = <<>> THEN line
    ELSE IF HasBit(ctrl, AlwaysInsert) THEN pfx \o line
    ELSE IF i = 1 /\ HasBit(ctrl, SkipFirstLine) THEN line
    ELSE IF HasBit(ctrl, BlankInsert) THEN Spaces(Len(pfx)) \o line
    ELSE pfx \o line

\* C25: with AlwaysInsert every line but an empty final segment carries the
\* literal prefix, whatever SkipFirstLine and BlankInsert; without it,
\* SkipFirstLine leaves the first line unprefixed whether or not BlankInsert
\* is set, and BlankInsert puts spaces of the prefix's length before every
\* other prefixed line.
C25_ModeBits ==
    (Prefixed /\ last.prefix # <<>>) =>
        LET sl == Split(last.s, NL)
        IN  last.result =
                Join([i \in 1 .. Len(sl) |->
                          ModeLine(i, Len(sl), sl[i], last.ctrl, UsedPrefix)], NL)

C25_Witness ==
    /\ Prefixed /\ last.prefix = P_NoColon /\ last.errCode = 0
    /\ last.ctrl = AlwaysInsert + BlankInsert + SkipFirstLine
    /\ last.s = <<"a", NL, "a">>
    /\ last.result = <<"x", "a", NL, "x", "a">>

C25_WitnessBlankSkip ==
    /\ Prefixed /\ last.prefix = P_OneColon /\ last.errCode = 0
    /\ last.ctrl = BlankInsert + SkipFirstLine
    /\ last.s = <<"a", NL, "a">>
    /\ last.result = <<"a", NL, " ", " ", " ", "a">>

\* A call whose first line gets the literal prefix
FirstLinePrefixed ==
    /\ Prefixed /\ last.prefix # <<>> /\ last.s # <<>>
    /\ HasBit(last.ctrl, AlwaysInsert)
           \/ (~HasBit(last.ctrl, SkipFirstLine) /\ ~HasBit(last.ctrl, BlankInsert))

\* C26 as stated: for every error code that is not zero and not the 'no
\* code' value and every prefix with exactly one colon, the prefix used is
\* the prefix with " #<code>:" in place of the colon; with the 'no code'
\* value, or with no colon or several, the prefix is used unchanged.
C26_SplicedForNonZero ==
    FirstLinePrefixed =>
        IsLead(PrefixWithCode(last.prefix, last.errCode,
                              last.errCode # 0 /\ last.errCode # defaultErrCode)
                   \o Split(last.s, NL)[1],
               last.result)

\* C26 as amended: for every positive error code other than the 'no code'
\* value and every prefix with exactly one colon, the prefix used is the
\* prefix with " #<code>:" in place of the colon; with the 'no code' value,
\* a code that is zero or negative, or a prefix with no colon or several,
\* the prefix is used unchanged.
C26_SplicedForPositive ==
    FirstLinePrefixed =>
        IsLead(UsedPrefix \o Split(last.s, NL)[1], last.result)

C26_Witness ==
    /\ FirstLinePrefixed /\ last.prefix = P_OneColon /\ last.errCode = ErrCode42
    /\ last.ctrl = 0 /\ last.s = <<"a">>
    /\ last.result = <<"E", " ", "#", "4", "2", ":", " ", "a">>

C26_WitnessNoCode ==
    /\ FirstLinePrefixed /\ last.prefix = P_OneColon /\ last.errCode = defaultErrCode
    /\ last.result = P_OneColon \o last.s

(***************************************************************************)
(* SpecDebugScope: PKG_OUT_DEBUG_SCOPE set, changed and unset around       *)
(* emissions of the Trace, Debug, Verbose and Issue channels and Fatal     *)
(***************************************************************************)
\* PKG_OUT_DEBUG_SCOPE=get: a part of the calling function's name
Env_ScopeGet == [EnvDefault EXCEPT !.debugScope = <<"g", "e", "t">>]

DebugScopeScope ==
    [thrLevels |-> {LevelTrace, LevelInfo},
     thrTgts |-> {ForScreen, ForLogfile},
     envs |-> {EnvDefault, Env_ScopeZ, Env_ScopeGet},
     levels |-> {LevelTrace, LevelDebug, LevelVerbose, LevelIssue},
     forms |-> {"print", "line"},
     texts |-> {T_a},
     history |-> FALSE,
     fails |-> {NoFail}]

NextDebugScope ==
    \/ SetThreshold(DebugScopeScope)
    \/ Setenv(DebugScopeScope)
    \/ Emit(DebugScopeScope)
    \/ Fatal(DebugScopeScope)

SpecDebugScope == Init /\ [][NextDebugScope]_vars

\* The scope filter is set and no part of it is in the name of the caller
ScopeExcludesCaller == env = Env_ScopeZ

\* What the last emission writes to a target when no filter applies: when
\* its level passes the threshold, the message, prefixed for the flag the
\* target had, then the corrective newline and the stack trace if due
Unfiltered(t) ==
    IF PassesThreshold(t) /\ last.level # LevelDiscard
    THEN LET pfxOf(str) ==
                 doPrefixingWith(last.level, str, t, SmartInsert, FALSE, FlagBefore(t),
                                 prefix[last.level], ChanFlags(last.level, t)).s
             stack == IF last.level >= LevelIssue
                         /\ stackTraceWanted(last.level, last.terminal, last.exitVal, t)
                      THEN pfxOf(getStackTrace) ELSE <<>>
         IN  writeOutput(last.level, pfxOf(last.msg), t, last.terminal, last.exitVal,
                         stack, "none").writes
    ELSE <<>>

\* C21: the debug-scope filter suppresses only Trace and Debug emissions and
\* is independent of the thresholds: at Verbose or above the bytes written
\* to each target are the same with and without the filter; a suppressed
\* Trace or Debug emission skips the write to the target and leaves the
\* target's continuation flag unchanged.
C21_DebugScopeOrthogonal ==
    last.op = "emit" =>
        \A t \in Targets :
            IF ScopeExcludesCaller /\ last.level \in {LevelTrace, LevelDebug}
            THEN TargetWrites(t) = <<>> /\ Newline(t) = FlagBefore(t)
            ELSE TargetWrites(t) = Unfiltered(t)

\* Print("a") leaves the screen flag off; with PKG_OUT_DEBUG_SCOPE=z and
\* both thresholds at Trace, Debug("a") then writes nothing and the flag
\* is still off.
C21_Witness ==
    /\ last.op = "emit" /\ last.level = LevelDebug /\ env = Env_ScopeZ
    /\ screenThreshold = LevelTrace /\ logThreshold = LevelTrace
    /\ NothingWritten
    /\ ~last.nlScreen /\ ~screenNewline

\* With PKG_OUT_DEBUG_SCOPE=z, Verbose("a") is written to both targets
C21_WitnessVerbose ==
    /\ last.op = "emit" /\ last.level = LevelVerbose /\ env = Env_ScopeZ
    /\ MsgWrites(ForScreen) # <<>> /\ MsgWrites(ForLogfile) # <<>>

(***************************************************************************)
(* SpecHook: several hooks registered in turn, and nil, around the calls   *)
(* that run the hook                                                       *)
(***************************************************************************)
HookScope ==
    [hooks |-> 0 .. (MaxHook + 1),
     envs |-> {EnvDefault, Env_NoExit},
     levels |-> {LevelNote},
     exitLevels |-> {LevelIssue},
     forms |-> {"print"},
     texts |-> {T_hi},
     history |-> FALSE,
     exitVals |-> {0, MaxExitVal},
     fails |-> {NoFail, <<"msg", "none">>},
     exitFails |-> {FALSE}]

NextHook ==
    \/ SetDeferFunc(HookScope)
    \/ Setenv(HookScope)
    \/ Emit(HookScope)
    \/ EmitExit(HookScope)
    \/ Fatal(HookScope)
    \/ Exit(HookScope)

SpecHook == Init /\ [][NextHook]_vars

\* What a step does to the registration and which hooks it runs: a
\* SetDeferFunc step registers its argument in place of what was registered,
\* no other step changes the registration, and the hooks a step runs are
\* the one registered when it began, none when that is nil.
C27_Step ==
    /\ last'.op = "SetDeferFunc" => deferFunc' = last'.arg
    /\ last'.op # "SetDeferFunc" => deferFunc' = deferFunc
    /\ \A i \in 1 .. Len(hookRun') : hookRun'[i] = deferFunc
    /\ deferFunc = 0 => hookRun' = <<>>
    /\ (last'.terminal /\ deferFunc # 0) => hookRun' # <<>>

\* C27: at most one hook is registered and the last registration wins: a
\* terminal operation runs only the hook registered most recently, and after
\* nil was registered it runs none.
C27_LastRegistrationWins == [][C27_Step]_vars

\* A terminal emission has run hook MaxHook + 1, registered after others
C27_Witness ==
    /\ last.terminal /\ last.op = "emit"
    /\ deferFunc = MaxHook + 1
    /\ hookRun = << MaxHook + 1 >>

\* Exit(0) in the test mode after nil was registered: no hook has run
C27_WitnessNil ==
    /\ last.op = "exit" /\ deferFunc = 0 /\ env.noExit /\ hookRun = <<>>

(***************************************************************************)
(* SpecExit: Exit under every stack trace configuration and threshold      *)
(***************************************************************************)
ExitScope ==
    [thrLevels |-> {LevelTrace, LevelFatal, LevelDiscard},
     thrTgts |-> {ForScreen, ForLogfile},
     stackCfgs |-> StackCfgs,
     envs |-> {EnvDefault, Env_ScreenAll},
     history |-> FALSE,
     exitVals |-> {0, MaxExitVal, defaultErrorExitVal},
     exitFails |-> BOOLEAN]

NextExit ==
    \/ SetThreshold(ExitScope)
    \/ SetStackTraceConfig(ExitScope)
    \/ Setenv(ExitScope)
    \/ Exit(ExitScope)

SpecExit == Init /\ [][NextExit]_vars

\* C28: Exit(0) writes no byte to the screen or the logfile under every
\* stack trace configuration, the any-exit and all-issues triggers for both
\* targets included, and every threshold; Exit(v) with v # 0 writes no
\* message and at most a stack trace, gated by the thresholds as an
\* emission of level Fatal is.
C28_ExitWrites ==
    last.op = "exit" =>
        IF last.exitVal = 0 THEN NothingWritten
        ELSE \A t \in Targets :
                /\ \A i \in 1 .. Len(TargetWrites(t)) : TargetWrites(t)[i].kind = "trace"
                /\ Len(TargetWrites(t)) <= 1
                /\ TargetWrites(t) # <<>> => LevelFatal >= safeThreshold(t)
                /\ (LevelFatal >= safeThreshold(t)
                    /\ stackTraceWanted(LevelFatal, TRUE, last.exitVal, t)
                    /\ last.failed = {} /\ diag = <<>>) => TargetWrites(t) # <<>>

\* Exit(0) under the configuration both targets + all issues, both
\* thresholds at Trace: nothing is written and the process has exited.
C28_Witness ==
    /\ last.op = "exit" /\ last.exitVal = 0
    /\ stackTraceConfig = ForBoth + StackTraceAllIssues
    /\ screenThreshold = LevelTrace /\ logThreshold = LevelTrace
    /\ env = EnvDefault /\ exited /\ NothingWritten

\* Exit(0) under both targets + error exit (the any-exit trigger)
C28_WitnessAnyExit ==
    /\ last.op = "exit" /\ last.exitVal = 0
    /\ stackTraceConfig = ForBoth + StackTraceErrorExit
    /\ screenThreshold = LevelTrace /\ logThreshold = LevelTrace
    /\ env = EnvDefault /\ NothingWritten

\* Exit(MaxExitVal) under the same configuration: a stack trace on the
\* logfile, none on the screen whose threshold is Discard
C28_WitnessTrace ==
    /\ last.op = "exit" /\ last.exitVal = MaxExitVal
    /\ screenThreshold = LevelDiscard /\ logThreshold = LevelFatal
    /\ TargetWrites(ForScreen) = <<>>
    /\ Len(TargetWrites(ForLogfile)) = 1

(***************************************************************************)
(* SpecTrace: emissions that carry a stack trace, on a fresh line and      *)
(* after an unfinished one                                                 *)
(***************************************************************************)
TraceScope ==
    [thrLevels |-> {LevelTrace},
     thrTgts |-> {ForLogfile},
     stackCfgs |-> {StackTraceExitToLogfile, ForBoth + StackTraceAllIssues},
     envs |-> {EnvDefault, Env_NoExit},
     levels |-> {LevelNote, LevelIssue},
     forms |-> {"print", "line"},
     texts |-> {T_a},
     history |-> FALSE,
     fails |-> {NoFail}]

NextTrace ==
    \/ SetThreshold(TraceScope)
    \/ SetStackTraceConfig(TraceScope)
    \/ Setenv(TraceScope)
    \/ Emit(TraceScope)
    \/ Fatal(TraceScope)

SpecTrace == Init /\ [][NextTrace]_vars

\* The stack trace writes of the last operation on a target
TraceWrites(outputTgt) ==
    SelectSeq(TargetWrites(outputTgt), LAMBDA w : w.kind = "trace")

\* The trace of the last emission, each line behind lead(i) but for an
\* empty last line
TraceBehind(lead(_)) ==
    LET lines == Split(getStackTrace, NL)
    IN  Join([i \in 1 .. Len(lines) |->
                 IF i = Len(lines) /\ lines[i] = <<>> THEN <<>>
                 ELSE lead(i) \o lines[i]], NL)

\* The metadata leader of the last emission on a target
MetaLeader(outputTgt) ==
    getFlagString(ChanFlags(last.level, outputTgt), last.level,
                  Runtime.funcName, Runtime.file, Runtime.line, Runtime)

\* A stack trace is the last write of the operation and follows its message
TraceComesLast(outputTgt) ==
    LET ws == TargetWrites(outputTgt)
    IN  /\ ws[1].kind = "msg"
        /\ ws[Len(ws)].kind = "trace"
        /\ Len(TraceWrites(outputTgt)) = 1

C29_WitnessFatal ==
    /\ last.op = "emit" /\ last.level = LevelFatal /\ FlagBefore(ForLogfile)
    /\ Len(TargetWrites(ForLogfile)) = 3
    /\ TargetWrites(ForLogfile)[2].kind = "nl"
    /\ TraceWritten(ForLogfile)

(***************************************************************************)
(* The metadata composer called with flag sets from a bounded set          *)
(***************************************************************************)
\* Every mask of the nine flag bits
AllFlagMasks == 0 .. (2 * Llevel - 1)

LeaderScope ==
    [flagSets |-> AllFlagMasks,
     levels |-> {LevelDebug, LevelIssue},
     texts |-> {T_a, T_b_c}]

\* The arguments of a call of insertFlagMetadata that is about to be made
InitLeader ==
    /\ InitButLast
    /\ \E flags \in LeaderScope.flagSets, level \in LeaderScope.levels,
          s \in LeaderScope.texts :
           last = [flags |-> flags, s |-> s, leader |-> <<>>, result |-> <<>>]
                      @@ [Quiet("args") EXCEPT !.level = level]

\* The call: the leader getFlagString builds for the flags and the string
\* insertFlagMetadata returns, for the screen on a fresh line
CallInsertFlagMetadata ==
    /\ Alive
    /\ last.op = "args"
    /\ CallObs([last EXCEPT
           !.op = "insertFlagMetadata",
           !.leader = getFlagString(EffectiveFlags(last.flags, ForScreen), last.level,
                                    Runtime.funcName, Runtime.file, Runtime.line,
                                    Runtime),
           !.result = insertFlagMetadataWith(last.level, last.s, ForScreen,
                                             SmartInsert, last.flags).s])
    /\ UNCHANGED << config, flags2, resetCalled >>

NextLeader == CallInsertFlagMetadata

SpecLeader == InitLeader /\ [][NextLeader]_vars

\* The texts of the segments for the values of Runtime
Seg_Pid == <<"[", "7", "]", " ">>
Seg_Date == <<"2", "0", "0", "9", "/", "0", "1", "/", "2", "3">>
Seg_Time == <<"0", "1", ":", "2", "3", ":", "2", "3">>
Seg_CallSite == <<"d", ".", "g", "o", ":", "2", "3">>

AnyFlag(flags, bits) == \E b \in bits : HasBit(flags, b)

\* C30: the leader contains the call-site segment whenever one of the four
\* file and function flags is set, also when only a function flag is set,
\* and contains no pid, level, date, time or call-site text whose flag is not
\* set; with no flag set the leader is empty and the composer returns the
\* message unchanged.
C30_LeaderSegments ==
    last.op = "insertFlagMetadata" =>
        /\ Contains(last.leader, Seg_CallSite)
               <=> AnyFlag(last.flags, {Lshortfile, Llongfile, Lshortfunc, Llongfunc})
        /\ ~HasBit(last.flags, Lpid) => ~Contains(last.leader, Seg_Pid)
        /\ ~HasBit(last.flags, Llevel)
               => ~Contains(last.leader, LevelString(last.level))
        /\ ~HasBit(last.flags, Ldate) => ~Contains(last.leader, Seg_Date)
        /\ ~AnyFlag(last.flags, {Ltime, Lmicroseconds})
               => ~Contains(last.leader, Seg_Time)
        /\ last.flags = 0 => (last.leader = <<>> /\ last.result = last.s)

\* The same with the call-site segment tied to the two file flags
C30_FileFlagsOnly ==
    last.op = "insertFlagMetadata" =>
        /\ Contains(last.leader, Seg_CallSite)
               <=> AnyFlag(last.flags, {Lshortfile, Llongfile})
        /\ ~HasBit(last.flags, Lpid) => ~Contains(last.leader, Seg_Pid)
        /\ ~HasBit(last.flags, Llevel)
               => ~Contains(last.leader, LevelString(last.level))
        /\ ~HasBit(last.flags, Ldate) => ~Contains(last.leader, Seg_Date)
        /\ ~AnyFlag(last.flags, {Ltime, Lmicroseconds})
               => ~Contains(last.leader, Seg_Time)
        /\ last.flags = 0 => (last.leader = <<>> /\ last.result = last.s)


(***************************************************************************)
(* SpecPartial: sinks that take less than they are given                   *)
(***************************************************************************)
T_a_nl == <<"a", NL>>
T_a_nl_b == <<"a", NL, "b">>

\* Emissions below Issue (no stack trace) and writes through the io.Writer
\* form, to sinks that take the whole message, fail it, or take all but its
\* last byte with or without an error.
PartialScope ==
    [thrLevels |-> {LevelTrace, LevelDiscard},
     thrTgts |-> {ForLogfile},
     levels |-> {LevelNote},
     writeLevels |-> {LevelInfo},
     forms |-> {"print", "line"},
     texts |-> {T_a, T_a_nl, T_a_nl_b},
     history |-> TRUE,
     fails |-> {NoFail, <<"msg", "none">>, <<"short", "none">>, <<"shortErr", "none">>,
                <<"none", "short">>, <<"none", "shortErr">>, <<"short", "short">>}]

NextPartial ==
    \/ SetThreshold(PartialScope)
    \/ Emit(PartialScope)
    \/ Write(PartialScope)

SpecPartial == Init /\ [][NextPartial]_vars

\* The last operation was an emission or a write, and some sink took less
\* of the message than it was given
PartialWrite == last.op \in {"emit", "write"} /\ last.short # {}

\* The count an emission returns is the sum of the counts its sinks reported
\* (each sink reports the bytes it took)
ReportedCount ==
    last.op \in {"emit", "write"} =>
        last.n = Len(TargetBytes(ForScreen)) + Len(TargetBytes(ForLogfile))

\* C31: when a sink write is partial (fewer bytes taken than requested, with
\* or without an error), the byte count the emission returns is the count
\* the sinks reported, and the continuation flag of the target says whether
\* the last byte actually written to its sink is a newline.
C31_PartialWrite ==
    PartialWrite =>
        /\ ReportedCount
        /\ \A t \in last.short : Newline(t) = tgtNl[t]

\* The part of C31 that holds: the count returned is the reported count,
\* and a target whose sink took the whole message has its flag say whether
\* the last byte written to it is a newline
C31_CountAndWholeWrites ==
    /\ ReportedCount
    /\ \A t \in Targets :
          (last.op \in {"emit", "write"} /\ t \notin last.short
              /\ TargetBytes(t) # <<>>) => Newline(t) = tgtNl[t]

(***************************************************************************)
(* SpecReentry: hooks that call back into the package                      *)
(***************************************************************************)
ReentryScope ==
    [hooks |-> {0, MaxHook, Hook_Noteln, Hook_SetThreshold, Hook_ResetNewline,
                Hook_SetDeferFunc},
     envs |-> {EnvDefault, Env_NoExit, Env_ScreenAll},
     levels |-> {LevelNote},
     exitLevels |-> {LevelIssue},
     forms |-> {"print"},
     texts |-> {T_hi},
     history |-> FALSE,
     exitVals |-> {0, MaxExitVal},
     fails |-> {NoFail, <<"msg", "none">>},
     exitFails |-> BOOLEAN]

NextReentry ==
    \/ SetDeferFunc(ReentryScope)
    \/ Setenv(ReentryScope)
    \/ Emit(ReentryScope)
    \/ EmitExit(ReentryScope)
    \/ Fatal(ReentryScope)
    \/ Exit(ReentryScope)

SpecReentry == Init /\ [][NextReentry]_vars

\* The hook h calls a function of the package that takes the package lock
\* exclusively
Reenters(h) == hookCallee(h) \in TakesLock

\* The last operation ran a hook that calls back into the package: the
\* caller waits, the hook was never left (no second hook call) and the
\* process has not terminated
ReentryBlocks ==
    (hookRun # <<>> /\ Reenters(hookRun[1])) =>
        (blocked /\ ~exited /\ Len(hookRun) = 1)

\* The last operation ran a hook that calls nothing of the package: the
\* caller does not wait, and the process has terminated unless
\* PKG_OUT_NO_EXIT=1 keeps it
PlainHookReturns ==
    (hookRun # <<>> /\ ~Reenters(hookRun[1])) =>
        (~blocked /\ (~env.noExit => exited))

\* C32: the hook runs while its caller holds the package lock in shared
\* mode and nothing guards against re-entry: when the hook calls a function
\* of the package that takes the lock exclusively (Noteln, SetThreshold,
\* ResetNewline, SetDeferFunc) the caller blocks and the process never
\* terminates; when it calls none, it returns and termination follows.
C32_HookReentry ==
    /\ [](ReentryBlocks /\ PlainHookReturns)
    /\ [][blocked => (blocked' /\ ~exited')]_vars

\* Fatal with a hook that calls Noteln: the message is out, the caller waits
C32_Witness ==
    /\ last.op = "emit" /\ last.terminal /\ last.level = LevelFatal
    /\ hookRun = << Hook_Noteln >>
    /\ Bytes("stderr") # <<>>
    /\ blocked /\ ~exited

\* Exit with a hook that calls nothing of the package: the process is gone
C32_WitnessPlain ==
    /\ last.op = "exit" /\ hookRun = << MaxHook >> /\ exited /\ ~blocked

(***************************************************************************)
(* SpecEmpty: emissions of an empty text                                   *)
(***************************************************************************)
\* fmt.Sprint() of no arguments, and a Write of zero bytes
T_empty == <<>>

EmptyScope ==
    [thrLevels |-> {LevelInfo, LevelDiscard},
     thrTgts |-> {ForScreen, ForLogfile},
     envs |-> {EnvDefault, [EnvDefault EXCEPT !.smartFlagsPrefix = "off"]},
     levels |-> {LevelInfo, LevelNote},
     writeLevels |-> {LevelInfo, LevelNote},
     forms |-> {"print", "line"},
     texts |-> {T_empty, T_a, T_a_nl},
     history |-> FALSE,
     fails |-> {NoFail}]

NextEmpty ==
    \/ SetThreshold(EmptyScope)
    \/ Setenv(EmptyScope)
    \/ Emit(EmptyScope)
    \/ Write(EmptyScope)

SpecEmpty == Init /\ [][NextEmpty]_vars

\* C33: every emission returns without a runtime fault, whatever the
\* message, an emission of an empty text to a target that passes its
\* threshold included: the update of the continuation flag never indexes
\* past the bounds of the text.
C33_NoRuntimeFault == ~panicked

\* The part of C33 that holds: an emission of a text that is not empty never
\* faults, and neither does one that no target lets pass
C33_FaultOnlyWhenEmpty ==
    panicked =>
        /\ last.msg = T_empty
        /\ \E t \in Targets : last.level >= safeThreshold(t)

(***************************************************************************)
(* SpecLocks: the package lock and the channel locks, one step for each    *)
(* lock operation of a call                                                *)
(***************************************************************************)
\* The locks: o.mu of the channel of level l is lock l, the package's mutex
\* (125) is PkgMutex.  A caller holds << lock, "w" >> after Lock and
\* << lock, "r" >> after RLock; << lock, "x" >> is a lock that a call which
\* ended in a fault left locked.
PkgMutex == -1

Op(kind, lk) == [kind |-> kind, lk |-> lk]

\* x.Lock(); inner; x.Unlock()  and  x.RLock(); ...; x.RUnlock()
Section(lk, inner) == << Op("Lock", lk) >> \o inner \o << Op("Unlock", lk) >>
RSection(lk) == << Op("RLock", lk), Op("RUnlock", lk) >>

\* for _, o := range outputters { o.mu.Lock(); defer o.mu.Unlock(); ... }:
\* the locks of the channels from .. upTo are taken in the order of
\* outputters and released, last taken first, at the return; the channels
\* of stores are assigned under their lock
RECURSIVE RangeLocked(_, _, _, _)
RangeLocked(kind, from, upTo, stores) ==
    IF from > upTo THEN <<>>
    ELSE << Op(kind, from) >>
         \o (IF from \in stores THEN << Op("Store", from) >> ELSE <<>>)
         \o RangeLocked(kind, from + 1, upTo, stores)
         \o << Op(IF kind = "Lock" THEN "Unlock" ELSE "RUnlock", from) >>

\* The last channel a loop with 'break' at the channel of level reaches
BreakAt(level) == IF level = LevelAll THEN LevelFatal ELSE level

\* o.stackTraceWanted 1397-1434: mutex is held to the return, o.mu is read-
\* locked under it when the configuration names the target
stackTraceWantedOps(c, outputTgt) ==
    Section(PkgMutex, IF outputTgt \in c.cfgTgts THEN RSection(c.level) ELSE <<>>)

\* o.insertFlagMetadata 1697-1705 and 1766-1770
insertFlagMetadataOps(c) == RSection(c.level) \o Section(c.level, <<>>)

\* o.doPrefixing 1854-1857, 1872-1874 and its call of insertFlagMetadata
doPrefixingOps(c) ==
    Section(PkgMutex, <<>>) \o RSection(c.level) \o insertFlagMetadataOps(c)

\* o.writeOutput 1907-1969 with sinks whose Write returns without error: the
\* call ends in the fault of s[len(s)-1] at 1937, mutex held, when the text
\* is empty
writeOutputOps(c, outputTgt) ==
    RSection(c.level) \o Section(PkgMutex, <<>>)
    \o (IF outputTgt = ForScreen
        THEN RSection(c.level) \o Section(PkgMutex, <<>>) ELSE <<>>)
    \o Section(PkgMutex, << Op("Write", outputTgt) >>)
    \o (IF c.msg = <<>>
        THEN << Op("Lock", PkgMutex), Op("Fault", outputTgt) >>
        ELSE Section(PkgMutex, << Op("Flag", outputTgt) >>)
             \o stackTraceWantedOps(c, outputTgt)
             \o (IF outputTgt \in c.wanted
                 THEN Section(PkgMutex, << Op("Write", outputTgt) >>) ELSE <<>>))

\* stringOutput 2069-2085 and 2088-2103: one target
targetOps(c, outputTgt) ==
    IF outputTgt \in c.active
    THEN doPrefixingOps(c)
         \o (IF c.level >= LevelIssue /\ outputTgt \in c.wanted
             THEN doPrefixingOps(c) ELSE <<>>)
         \o writeOutputOps(c, outputTgt)
    ELSE <<>>

\* A non-terminal emission: Noteln 962-965 and the like, then stringOutput
\* 1993-2004 (the thresholds are read under mutex), 2010-2020, and the two
\* targets; a fault ends the call
emitOps(c) ==
    LET all == Section(PkgMutex, <<>>) \o RSection(c.level)
               \o Section(PkgMutex, << Op("Read", 0) >>)
               \o (IF c.level >= LevelIssue
                   THEN stackTraceWantedOps(c, ForScreen)
                        \o stackTraceWantedOps(c, ForLogfile)
                   ELSE <<>>)
               \o targetOps(c, ForScreen) \o targetOps(c, ForLogfile)
        faults == {i \in 1 .. Len(all) : all[i].kind = "Fault"}
    IN  IF faults = {} THEN all
        ELSE SubSeq(all, 1, CHOOSE i \in faults : \A j \in faults : i <= j)

\* The lock operations of a call, in order
Prog(c) ==
    CASE c.name = "emit" -> emitOps(c)
      [] c.name = "SetThreshold" ->
            (IF HasBit(c.tgt, ForScreen)
             THEN Section(PkgMutex, << Op("Store", ForScreen) >>) ELSE <<>>)
            \o (IF HasBit(c.tgt, ForLogfile)
                THEN Section(PkgMutex, << Op("Store", ForLogfile) >>) ELSE <<>>)
      [] c.name = "Threshold" -> Section(PkgMutex, <<>>)
      [] c.name = "ResetNewline" -> Section(PkgMutex, << Op("Store", 0) >>)
      [] c.name = "SetStackTraceConfig" -> Section(PkgMutex, << Op("Store", 0) >>)
      [] c.name = "SetPrefix" ->
            RangeLocked("Lock", LevelTrace, LevelFatal, {levelCheck(c.level)})
      [] c.name = "Prefix" -> RangeLocked("RLock", LevelTrace, levelCheck(c.level), {})
      [] c.name \in {"SetFlags", "SetWriter"} ->
            RangeLocked("Lock", LevelTrace, BreakAt(c.level),
                        IF c.level = LevelAll THEN Levels ELSE {c.level})
      [] c.name = "Flags" ->
            LET through[l \in Levels] ==
                    (IF l = LevelTrace THEN <<>> ELSE through[l - 1]) \o RSection(l)
            IN  through[levelCheck(c.level)]
      [] c.name = "Writer" -> RangeLocked("RLock", LevelTrace, LevelFatal, {})

\* A call of a caller that is in none
NoCall == Idle.call

\* A call and its arguments: val is the flags of SetFlags and the
\* configuration of SetStackTraceConfig, pfx the prefix of SetPrefix, w the
\* writer of SetWriter, nl the value of ResetNewline
Call(name, level, tgt, val) ==
    [NoCall EXCEPT !.name = name, !.level = level, !.tgt = tgt, !.val = val]
Emission(level, msg) == [NoCall EXCEPT !.name = "emit", !.level = level, !.msg = msg]

\* stringOutput 2002-2003 and the stackTraceWanted calls: the targets the
\* level passes, the targets the stack trace configuration names, and the
\* targets that get a stack trace, as the configuration has them
Resolved(c) ==
    [c EXCEPT
        !.active = {t \in Targets : c.level >= safeThreshold(t) /\ c.level # LevelDiscard},
        !.cfgTgts = {t \in Targets :
                        HasBit(EffectiveStackCfg(stackTraceConfig, env.stackTraceConfig), t)},
        !.wanted = {t \in Targets : stackTraceWanted(c.level, FALSE, 0, t)}]

\* The operation a caller in a call is at
NextOp(g) == Prog(loc[g].call)[loc[g].ip]

\* sync.RWMutex: Lock returns when no caller holds the lock, the caller
\* itself included; RLock returns when no caller holds it for writing and
\* no other caller is at a Lock of it (a waiting Lock keeps readers out)
CanDo(g, op) ==
    CASE op.kind = "Lock" ->
            \A h \in Procs : \A m \in {"w", "r", "x"} : << op.lk, m >> \notin loc[h].holds
      [] op.kind = "RLock" ->
            /\ \A h \in Procs : \A m \in {"w", "x"} : << op.lk, m >> \notin loc[h].holds
            /\ \A h \in Procs \ {g} :
                  pc[h] = "locks" => NextOp(h) # Op("Lock", op.lk)
      [] OTHER -> TRUE

\* The locks a caller holds after an operation
HoldsAfter(holds, op) ==
    CASE op.kind = "Lock" -> holds \cup {<< op.lk, "w" >>}
      [] op.kind = "Unlock" -> holds \ {<< op.lk, "w" >>}
      [] op.kind = "RLock" -> holds \cup {<< op.lk, "r" >>}
      [] op.kind = "RUnlock" -> holds \ {<< op.lk, "r" >>}
      [] op.kind = "Fault" -> {<< h[1], "x" >> : h \in holds}
      [] OTHER -> holds

\* A caller begins a call; it still holds what a call of its that ended in
\* a fault left locked
LockStart(sc) ==
    \E g \in Procs, c \in sc.lockCalls :
        /\ Alive
        /\ pc[g] = "idle"
        /\ pc' = [pc EXCEPT ![g] = "locks"]
        /\ loc' = [loc EXCEPT ![g] = [Idle EXCEPT !.call = c, !.ip = 1,
                                                  !.holds = loc[g].holds]]
        /\ UNCHANGED << config, flags2, obs, calls, sinkLog >>

\* A caller does the operation it is at.  A store assigns what the call
\* sets, under the lock the program holds there; a fault ends the call with
\* its locks held, and the process with it unless the client recovers the
\* panic (sc.recovers); the call returns after its last operation.
LockStepOf(sc, g) ==
        /\ Alive
        /\ pc[g] = "locks"
        /\ \E c \in {loc[g].call} :
           \E prog \in {Prog(c)} :
           \E op \in {prog[loc[g].ip]} :
           \E recovered \in (IF op.kind = "Fault" THEN sc.recovers ELSE {TRUE}) :
           \E holds \in {HoldsAfter(loc[g].holds, op)} :
           \E store \in {IF op.kind = "Store" THEN c.name ELSE "none"} :
            /\ CanDo(g, op)
            /\ IF op.kind = "Fault" \/ loc[g].ip = Len(prog)
               THEN /\ pc' = [pc EXCEPT ![g] = "idle"]
                    /\ loc' = [loc EXCEPT ![g] = [Idle EXCEPT !.holds = holds]]
               ELSE /\ pc' = pc
                    /\ loc' = [loc EXCEPT ![g] =
                           [@ EXCEPT !.ip = @ + 1, !.holds = holds,
                                     !.call = IF op.kind = "Read" THEN Resolved(c) ELSE c]]
            /\ panicked' = (op.kind = "Fault" /\ ~recovered)
            /\ screenThreshold' = IF store = "SetThreshold" /\ op.lk = ForScreen
                                  THEN levelCheck(c.level) ELSE screenThreshold
            /\ logThreshold' = IF store = "SetThreshold" /\ op.lk = ForLogfile
                               THEN levelCheck(c.level) ELSE logThreshold
            /\ stackTraceConfig' = IF store = "SetStackTraceConfig" THEN c.val
                                   ELSE stackTraceConfig
            /\ prefix' = IF store = "SetPrefix" THEN [prefix EXCEPT ![op.lk] = c.pfx]
                         ELSE prefix
            /\ screenFlags' = IF store = "SetFlags" /\ HasBit(c.tgt, ForScreen)
                              THEN [screenFlags EXCEPT ![op.lk] = c.val] ELSE screenFlags
            /\ logFlags' = IF store = "SetFlags" /\ HasBit(c.tgt, ForLogfile)
                           THEN [logFlags EXCEPT ![op.lk] = c.val] ELSE logFlags
            /\ screenHndl' = IF store = "SetWriter" /\ HasBit(c.tgt, ForScreen)
                             THEN [screenHndl EXCEPT ![op.lk] = c.w] ELSE screenHndl
            /\ logfileHndl' = IF store = "SetWriter" /\ HasBit(c.tgt, ForLogfile)
                              THEN [logfileHndl EXCEPT ![op.lk] = c.w] ELSE logfileHndl
            /\ screenNewline' =
                   IF store = "ResetNewline" /\ HasBit(c.tgt, ForScreen) THEN c.nl
                   ELSE IF op = Op("Flag", ForScreen) THEN EndsInNewline(c.msg)
                   ELSE screenNewline
            /\ logfileNewline' =
                   IF store = "ResetNewline" /\ HasBit(c.tgt, ForLogfile) THEN c.nl
                   ELSE IF op = Op("Flag", ForLogfile) THEN EndsInNewline(c.msg)
                   ELSE logfileNewline
            /\ UNCHANGED << errorExitVal, deferFunc, formatter, env, written, tgtNl,
                            tgtSink, resetCalled, diag, hookCalls, hookRun, exited,
                            exitCode, blocked, last, calls, sinkLog >>

\* Calls with valid arguments: emissions of a line and of nothing, and the
\* configuration and query calls; but for the stack trace configuration
\* they store the values the package starts with
LockScope ==
    [lockCalls |->
        {Emission(LevelIssue, T_a_nl), Emission(LevelInfo, T_empty),
         Call("SetThreshold", LevelInfo, ForScreen, 0),
         Call("Threshold", 0, ForScreen, 0),
         [Call("SetPrefix", LevelNote, 0, 0) EXCEPT !.pfx = Str_Note],
         Call("Prefix", LevelNote, 0, 0),
         Call("SetFlags", LevelAll, ForLogfile, LlogfileFlags),
         Call("Flags", LevelIssue, ForScreen, 0),
         [Call("SetWriter", LevelAll, ForLogfile, 0) EXCEPT !.w = "discard"],
         Call("Writer", LevelNote, ForScreen, 0),
         Call("ResetNewline", 0, ForBoth, 0),
         Call("SetStackTraceConfig", 0, 0, ForBoth + StackTraceAllIssues)},
     recovers |-> BOOLEAN]

LockStep(sc) == \E g \in Procs : LockStepOf(sc, g)

NextLocks ==
    \/ LockStart(LockScope)
    \/ LockStep(LockScope)

SpecLocks == Init /\ [][NextLocks]_vars

\* A caller is in a call and the lock operation it is at cannot return now
Waits(g) == pc[g] = "locks" /\ ~CanDo(g, NextOp(g))

\* A caller waits and no other caller is in a call that can go on: the
\* locks it waits for are never released
WaitsForever(g) == Waits(g) /\ \A h \in Procs \ {g} : pc[h] = "idle" \/ Waits(h)

\* No caller holds a channel lock when it is at a Lock or RLock of mutex
NoMutexUnderChannelLock ==
    \A g \in Procs :
        (pc[g] = "locks" /\ NextOp(g).kind \in {"Lock", "RLock"}
            /\ NextOp(g).lk = PkgMutex)
        => \A h \in loc[g].holds : h[1] = PkgMutex

\* A caller at a Lock or RLock of a channel holds channel locks of lower
\* levels only
AscendingChannelLocks ==
    \A g \in Procs :
        (pc[g] = "locks" /\ NextOp(g).kind \in {"Lock", "RLock"}
            /\ NextOp(g).lk # PkgMutex)
        => \A h \in loc[g].holds : h[1] < NextOp(g).lk

\* A call has ended in a fault: the process is gone, or the caller is back
\* and has left a lock locked
CallFaulted == panicked \/ \E g \in Procs : \E h \in loc[g].holds : h[2] = "x"

\* C34: with concurrent callers in emissions and in configuration and query
\* calls with valid arguments, no hook and sinks whose writes return, no
\* caller ever waits forever: none waits for mutex with a channel lock held,
\* channel locks are taken in ascending order of level, and every call
\* returns.
C34_NoCallerWaitsForever ==
    /\ NoMutexUnderChannelLock
    /\ AscendingChannelLocks
    /\ ~CallFaulted
    /\ \A g \in Procs : ~WaitsForever(g)

\* The part of C34 that holds: the order of the locks, and that a caller
\* waits forever only for a lock that a faulted call left held
C34_LockOrder ==
    /\ NoMutexUnderChannelLock
    /\ AscendingChannelLocks
    /\ \A g \in Procs :
          WaitsForever(g) => \E h \in Procs : << PkgMutex, "x" >> \in loc[h].holds

\* The calls of LockScope whose text is not empty: none of them faults
LockScopeNoFault ==
    [LockScope EXCEPT !.lockCalls = {c \in @ : c.name # "emit" \/ c.msg # <<>>}]

NextLocksNoFault ==
    \/ LockStart(LockScopeNoFault)
    \/ LockStep(LockScopeNoFault)

\* sync.Mutex and sync.RWMutex hand a lock that is released again and again
\* to every waiter in turn (a waiter starved for 1 ms is served first, a
\* waiting writer keeps later readers out): a caller whose lock operation
\* can return again and again does return
SpecLocksFair ==
    /\ Init
    /\ [][NextLocksNoFault]_vars
    /\ \A g \in Procs : SF_vars(LockStepOf(LockScopeNoFault, g))

\* Without the emission of an empty text every call returns
C34_EveryCallReturns == \A g \in Procs : (pc[g] = "locks") ~> (pc[g] = "idle")


(***************************************************************************)
(* A failing screen write stops the emission                               *)
(***************************************************************************)
StopScope ==
    [thrLevels |-> {LevelTrace, LevelDiscard},
     thrTgts |-> {ForLogfile},
     stackCfgs |-> {StackTraceExitToLogfile, ForBoth + StackTraceAllIssues},
     envs |-> {EnvDefault, Env_NoExit},
     levels |-> {LevelNote, LevelIssue},
     exitLevels |-> {LevelIssue},
     writeLevels |-> {LevelIssue},
     forms |-> {"print", "line"},
     texts |-> {T_hi},
     history |-> FALSE,
     exitVals |-> {0, MaxExitVal},
     fails |-> {NoFail, <<"msg", "none">>, <<"shortErr", "none">>, <<"nl", "none">>,
                <<"trace", "none">>, <<"none", "msg">>}]

NextStop ==
    \/ SetThreshold(StopScope)
    \/ SetStackTraceConfig(StopScope)
    \/ Setenv(StopScope)
    \/ Emit(StopScope)
    \/ EmitExit(StopScope)
    \/ Write(StopScope)

SpecStop == Init /\ [][NextStop]_vars

\* A write of the last emission to the screen sink returned an error
ScreenWriteFailed == last.op \in {"emit", "write"} /\ ForScreen \in last.failed

\* The error of the screen is the one the emission returns, and the logfile
\* sink got nothing from the emission
StopsAtScreen ==
    /\ last.err # "none"
    /\ last.errTgt = ForScreen
    /\ TargetWrites(ForLogfile) = <<>>

\* C35: when the screen write of an emission fails, the emission returns the
\* error at once, the logfile sink receives nothing from that emission, and
\* both continuation flags keep the values they had before the emission.
C35_ScreenFailureStops ==
    ScreenWriteFailed =>
        /\ StopsAtScreen
        /\ screenNewline = last.nlScreen
        /\ logfileNewline = last.nlLogfile

\* C35, amended: when a screen write of an emission fails, the emission
\* returns that error, the logfile sink receives nothing from the emission
\* and the logfile flag keeps its value; the screen flag keeps its value only
\* when the failing write is the one of the message.  When the corrective
\* newline of a terminal emission fails the screen flag is false, and when
\* the stack trace fails it says whether the message ended in a newline or
\* was followed by the corrective newline.
C35_ScreenFailureStopsAfterMessage ==
    ScreenWriteFailed =>
        /\ StopsAtScreen
        /\ logfileNewline = last.nlLogfile
        /\ screenNewline = CASE last.err = "msg" -> last.nlScreen
                             [] last.err = "nl" -> FALSE
                             [] last.err = "trace" ->
                                    last.afterMsgScreen \/ last.terminal
        /\ last.err # "msg" => TargetWrites(ForScreen) # <<>>

\* The stack trace of an Issue could not be written to the screen after its
\* message was, with the logfile open: the screen flag changed
C35_Witness ==
    /\ ScreenWriteFailed
    /\ last.err = "trace"
    /\ logThreshold = LevelTrace
    /\ screenNewline # last.nlScreen


(***************************************************************************)
(* What SetPrefix, SetFlags and SetWriter leave alone                      *)
(***************************************************************************)
FrameScope ==
    [thrLevels |-> {LevelTrace},
     thrTgts |-> {ForLogfile},
     resetVals |-> {FALSE},
     resetTgts |-> {ForScreen},
     prefixLevels |-> {LevelTrace, LevelNote},
     prefixes |-> {Str_Alt},
     flagLevels |-> {LevelNote, LevelAll},
     flagVals |-> {Llevel},
     flagTgts |-> {ForScreen, ForLogfile, ForBoth},
     writerLevels |-> {LevelNote, LevelAll},
     writerTgts |-> {ForScreen, ForLogfile, ForBoth},
     writers |-> {"stderr", "logfile"}]

NextFrame ==
    \/ SetThreshold(FrameScope)
    \/ ResetNewline(FrameScope)
    \/ SetPrefix(FrameScope)
    \/ SetFlags(FrameScope)
    \/ SetWriter(FrameScope)

SpecFrame == Init /\ [][NextFrame]_vars

\* The call that leads to the next state is one of the three, made for one
\* valid level or (SetFlags, SetWriter) for all levels
SetterCall ==
    /\ last'.op \in {"SetPrefix", "SetFlags", "SetWriter"}
    /\ last'.arg \in Levels \/ (last'.arg = LevelAll /\ last'.op # "SetPrefix")

\* The call that leads to the next state, of attribute op, selects the
\* channel of level l and, for a flags or writer call, the target
Selects(op, l, outputTgt) ==
    /\ last'.op = op
    /\ last'.arg \in {l, LevelAll}
    /\ op = "SetPrefix" \/ HasBit(last'.tgt, outputTgt)

\* The attributes of the channels that the call does not select keep their
\* values
UnselectedKept ==
    \A l \in Levels :
        /\ ~Selects("SetPrefix", l, 0) => prefix'[l] = prefix[l]
        /\ ~Selects("SetFlags", l, ForScreen) => screenFlags'[l] = screenFlags[l]
        /\ ~Selects("SetFlags", l, ForLogfile) => logFlags'[l] = logFlags[l]
        /\ ~Selects("SetWriter", l, ForScreen) => screenHndl'[l] = screenHndl[l]
        /\ ~Selects("SetWriter", l, ForLogfile) => logfileHndl'[l] = logfileHndl[l]

\* The flags and the sinks that the call selects have one value, the flags
\* the value given
SelectedStored ==
    /\ \A l \in Levels :
        /\ Selects("SetFlags", l, ForScreen) => screenFlags'[l] = last'.val
        /\ Selects("SetFlags", l, ForLogfile) => logFlags'[l] = last'.val
    /\ \E w \in Sinks : \A l \in Levels :
        /\ Selects("SetWriter", l, ForScreen) => screenHndl'[l] = w
        /\ Selects("SetWriter", l, ForLogfile) => logfileHndl'[l] = w

C36_WitnessAllWriters ==
    /\ last.op = "SetWriter" /\ last.arg = LevelAll /\ last.tgt = ForScreen
    /\ \A l \in Levels : screenHndl[l] = "stderr" /\ logfileHndl[l] = "discard"

\* SetPrefix was called for the Note channel
C36_WitnessPrefix ==
    /\ last.op = "SetPrefix" /\ last.arg = LevelNote
    /\ prefix[LevelNote] = Str_Alt
    /\ prefix[LevelTrace] = Str_Trace


(***************************************************************************)
(* LevelWriter                                                             *)
(***************************************************************************)
LevelWriterScope ==
    [thrLevels |-> {LevelTrace, LevelInfo, LevelNote, LevelDiscard},
     thrTgts |-> {ForScreen, ForLogfile},
     writerArgs |-> (LevelTrace - OutOfRange) .. (LevelAll + OutOfRange),
     writeLevels |-> {LevelNote},
     texts |-> {T_hi, T_a_nl},
     history |-> FALSE,
     fails |-> {NoFail}]

NextLevelWriter ==
    \/ SetThreshold(LevelWriterScope)
    \/ Write(LevelWriterScope)
    \/ LevelWriterWrite(LevelWriterScope)

SpecLevelWriter == Init /\ [][NextLevelWriter]_vars

\* The last call wrote through LevelWriter(l), l being Discard or above
WroteThroughDiscard == last.op = "LevelWriter" /\ last.arg >= LevelDiscard

\* C37: LevelWriter(l) returns the channel whose level is l for every l in
\* Trace..Fatal (values below Trace give the Trace channel); for Discard and
\* every value at or above Discard it returns the Info channel, so bytes
\* written through LevelWriter(LevelDiscard) are emitted at Info level,
\* subject to the thresholds, rather than discarded: the screen gets them as
\* the unprefixed Info channel writes them when Info passes the screen
\* threshold, and the logfile gets them when Info passes its threshold.
C37_LevelWriterChannel ==
    last.op = "LevelWriter" =>
        /\ last.level = IF last.arg <= LevelTrace THEN LevelTrace
                        ELSE IF last.arg <= LevelFatal THEN last.arg
                        ELSE LevelInfo
        /\ last.arg >= LevelDiscard =>
            /\ Bytes("stdout") = IF LevelInfo >= safeThreshold(ForScreen)
                                 THEN last.msg ELSE <<>>
            /\ (TargetBytes(ForLogfile) # <<>>) <=> (LevelInfo >= safeThreshold(ForLogfile))

\* Bytes written through LevelWriter(LevelDiscard) reached the screen
C37_Witness ==
    /\ WroteThroughDiscard
    /\ last.arg = LevelDiscard
    /\ Bytes("stdout") = T_hi

\* Bytes written through LevelWriter of a level below Trace were written by
\* the Trace channel, to the logfile
C37_WitnessBelowTrace ==
    /\ last.op = "LevelWriter" /\ last.arg < LevelTrace
    /\ last.level = LevelTrace
    /\ TargetBytes(ForLogfile) # <<>>

====
